---- MODULE Spec2Model ----
(***************************************************************************)
(* Model of the process/IO supervision engine of the runc shim:            *)
(*   - InitProcess (crates/shim-runc/src/process/init.rs), the lifecycle   *)
(*     controller of one container process, together with the runtime      *)
(*     client commands it drives (crates/runc-rust/src/lib.rs).            *)
(*   - create_and_io_preparation step by step: the async block, the two    *)
(*     tasks it spawns and the external create process.                    *)
(*   - Fifo (crates/shim-runc/src/process/fifo.rs): the two ends of one    *)
(*     named pipe opened through Fifo::open while another actor unlinks    *)
(*     and recreates the path, and the bytes that then flow through it.    *)
(*   - ProcessMonitor (crates/runc-rust/src/monitor.rs): start and wait on *)
(*     the two ends of one oneshot channel.                                *)
(* Option<T> values are sequences of length at most one.                   *)
(***************************************************************************)
EXTENDS Integers, Sequences, FiniteSets, TLC

\* ------------------------------------------------------------------ bounds
MaxPid == 2
MaxStatus == 1
MaxLen == 2
MaxByte == 1
PipeCap == 1
MaxUnlink == 1

Pids == 1..MaxPid
ExitCodes == 0..MaxStatus
Signals == {9, 15}

None == <<>>
Some(x) == <<x>>

\* ------------------------------------------------------------------ state
VARIABLES
    \* InitProcess fields (init.rs:51-86)
    state, wait_block, runtime, io, stdin, pid, status, exited, stdio,
    \* the world outside the shim: the container as the runtime binary sees it,
    \* the pid-file in the bundle directory, the exit code of the init process
    ctr, pidFile, procStatus, exitObserved,
    \* the copy tasks spawned and the destinations opened by the last copy_pipes
    copyTasks, copyOpens,
    \* what the caller of the last operation got back, and the results of
    \* create_and_io_preparation and of copy_pipes inside the last create
    \* ("none": not reached)
    lastOp, lastRes, lastPrep, lastCopy,
    \* the result of the runtime client command the last operation ran, and
    \* the value the last operation returned with Ok
    lastCmd, lastVal

ipVars == <<state, wait_block, runtime, io, stdin, pid, status, exited, stdio>>
envVars == <<ctr, pidFile, procStatus, exitObserved>>
ioVars == <<copyTasks, copyOpens>>
callVars == <<lastOp, lastRes, lastPrep, lastCopy, lastCmd, lastVal>>

ProcessState ==
    {"Unknown", "Created", "Running", "Stopped", "Paused", "Pausing", "Deleted"}

\* StdioConfig (config.rs): three destination strings and the terminal flag
StdioConfig(i, o, e) == [stdin |-> i, stdout |-> o, stderr |-> e, terminal |-> FALSE]
is_null(c) == c.stdin = "" /\ c.stdout = "" /\ c.stderr = ""

\* ProcessIO::new: the first statement returns the NullIO bundle for every
\* config ("Only NullIO is supported now"); the code after it is unreachable.
\* `calls` counts the copy_pipes invocations made on the bundle (2: two or more).
ProcessIO_new_piped(c) ==
    [io |-> "RuncPipedIO", copy |-> TRUE, stdio |-> c, calls |-> 0]
ProcessIO_new(c) == [io |-> "NullIO", copy |-> FALSE, stdio |-> c, calls |-> 0]

\* proc_io.copy_pipes() has been called on the bundle once more
copy_pipes_called(p) == [p EXCEPT !.calls = IF p.calls = 0 THEN 1 ELSE 2]

\* ------------------------------------------------- runtime client commands
\* Each command of the external runtime binary either fails, or succeeds when
\* the container is in a status the runtime accepts the command in.
CreateAccepts == ctr = "absent"
StartAccepts == ctr = "created"
KillAccepts == ctr \in {"created", "running"}
DeleteAccepts == ctr \in {"created", "stopped"}

\* ----------------------------------------------------------------- create
\* What create_and_io_preparation leaves in self.runtime, self.io, self.stdin
\* and returns, by the first of its awaits that fails.
create_and_io_preparation(rtOk, cmdOk, stdinOk, copyOk, pio, hasStdin) ==
    IF ~rtOk
    THEN [res |-> "Err", runtime |-> runtime, io |-> Some(pio), stdin |-> stdin]
    ELSE IF ~cmdOk
    THEN [res |-> "Err", runtime |-> None, io |-> None, stdin |-> stdin]
    ELSE IF hasStdin /\ ~stdinOk
    THEN [res |-> "Err", runtime |-> None, io |-> None, stdin |-> stdin]
    ELSE LET sin == IF hasStdin /\ stdin = None THEN Some("fifo") ELSE stdin IN
         IF ~copyOk
         THEN [res |-> "Err", runtime |-> runtime, io |-> None, stdin |-> sin]
         ELSE [res |-> "Ok", runtime |-> runtime,
               io |-> Some(copy_pipes_called(pio)), stdin |-> sin]

\* fifo::is_fifo: the destinations that are named pipes on this file system
is_fifo(path) == path \in {"/s/in", "/s/out", "/s/err"}

\* ProcessIO::copy_pipes: nothing at all when copy is false; otherwise one copy
\* task per output stream (a FIFO destination is opened at both ends, a file
\* once) and one for stdin when requested.
copy_pipes_always(pio, copyIn) ==
    LET ends(path) == IF is_fifo(path) THEN 2 ELSE 1
        nIn == IF pio.stdio.stdin # "" THEN 1 ELSE 0
    IN  [res |-> IF copyIn THEN "Ok" ELSE "Err",
         tasks |-> 2 + nIn,
         opens |-> ends(pio.stdio.stdout) + ends(pio.stdio.stderr) + nIn]
copy_pipes(pio, copyIn) ==
    IF ~pio.copy
    THEN [res |-> "Ok", tasks |-> 0, opens |-> 0]
    ELSE copy_pipes_always(pio, copyIn)

\* pid_str.parse::<isize>().unwrap() on the text of init.pid
parse_pid_default(file) == 0
parse_pid(file) == file

\* Option::take leaves None in self.wait_block
wait_block_as_ref == wait_block
wait_block_take == None

Panic(op) ==
    /\ lastOp' = op
    /\ lastRes' = "Panic"
    /\ lastPrep' = "none"
    /\ lastCopy' = "none"
    /\ lastCmd' = "none"
    /\ lastVal' = "none"
    /\ UNCHANGED ioVars

Returns(op, res) ==
    /\ lastOp' = op
    /\ lastRes' = res
    /\ lastPrep' = "none"
    /\ lastCopy' = "none"
    /\ lastCmd' = "none"
    /\ lastVal' = "none"
    /\ UNCHANGED ioVars

Create ==
    \E terminal, ioOk, rtOk, cmdIn, stdinOk, copyIn \in BOOLEAN, newPid \in Pids :
        /\ lastRes # "Panic"
        /\ IF terminal
           THEN \* panic!("unimplemented")
                /\ Panic("create")
                /\ UNCHANGED <<ipVars, envVars>>
           ELSE IF ~ioOk
           THEN \* ProcessIO::new(..)? : NullIO::new could not open /dev/null
                /\ Returns("create", "Err")
                /\ UNCHANGED <<ipVars, envVars>>
           ELSE IF rtOk /\ runtime = None
           THEN \* self.runtime.take().expect(RUNTIME_NOT_FOUND_MSG)
                /\ Panic("create")
                /\ io' = IF io = None THEN Some(ProcessIO_new(stdio)) ELSE io
                /\ wait_block' = Some("closed")
                /\ UNCHANGED <<state, runtime, stdin, pid, status, exited, stdio, envVars>>
           ELSE LET pio == IF io = None THEN ProcessIO_new(stdio) ELSE io[1]
                    cmdOk == cmdIn /\ CreateAccepts
                    cp == copy_pipes(pio, copyIn)
                    prep == create_and_io_preparation(
                                rtOk, cmdOk, stdinOk, cp.res = "Ok",
                                pio, stdio.stdin # "")
                    ran == rtOk /\ cmdOk
                    file == IF ran THEN newPid ELSE pidFile
                IN  /\ runtime' = prep.runtime
                    /\ io' = prep.io
                    /\ stdin' = prep.stdin
                    \* the result of create_and_io_preparation is dropped and
                    \* tx.send(()) follows in every case
                    /\ wait_block' = Some("sent")
                    /\ ctr' = IF ran THEN "created" ELSE ctr
                    /\ pidFile' = file
                    /\ lastOp' = "create"
                    /\ lastPrep' = prep.res
                    \* the copy_io task is spawned before create is awaited
                    /\ lastCopy' = IF rtOk THEN cp.res ELSE "none"
                    /\ lastCmd' = IF ~rtOk THEN "none" ELSE IF cmdOk THEN "Ok" ELSE "Err"
                    /\ lastVal' = "none"
                    /\ copyTasks' = IF rtOk THEN cp.tasks ELSE copyTasks
                    /\ copyOpens' = IF rtOk THEN cp.opens ELSE copyOpens
                    /\ exitObserved' = IF ran THEN FALSE ELSE exitObserved
                    /\ IF file = 0
                       THEN \* OpenOptions::open(&pid_file)? fails
                            /\ lastRes' = "Err"
                            /\ UNCHANGED <<state, pid>>
                       ELSE /\ pid' = parse_pid(file)
                            /\ state' = "Created"
                            /\ lastRes' = "Ok"
                    /\ UNCHANGED <<status, exited, stdio, procStatus>>

\* ------------------------------------------------------------------ start
\* the ? after block_on returns before self.state = ProcessState::Running
start_state_early(cmdOk, s) == "Running"
start_state(cmdOk, s) == IF cmdOk THEN "Running" ELSE s

Start ==
    \E cmdIn \in BOOLEAN :
        /\ lastRes # "Panic"
        /\ IF runtime = None
           THEN /\ Panic("start")
                /\ UNCHANGED <<ipVars, envVars>>
           ELSE /\ lastOp' = "start"
                /\ lastPrep' = "none"
                /\ lastCopy' = "none"
                /\ lastCmd' = IF cmdIn /\ StartAccepts THEN "Ok" ELSE "Err"
                /\ lastVal' = "none"
                /\ UNCHANGED ioVars
                /\ state' = start_state(cmdIn /\ StartAccepts, state)
                /\ IF cmdIn /\ StartAccepts
                   THEN /\ ctr' = "running"
                        /\ lastRes' = "Ok"
                   ELSE /\ lastRes' = "Err"
                        /\ UNCHANGED ctr
                /\ UNCHANGED <<wait_block, runtime, io, stdin, pid, status, exited,
                               stdio, pidFile, procStatus, exitObserved>>

\* ----------------------------------------------------------------- delete
Delete ==
    \E cmdIn \in BOOLEAN :
        /\ lastRes # "Panic"
        /\ IF runtime = None
           THEN /\ Panic("delete")
                /\ UNCHANGED <<ipVars, envVars>>
           ELSE /\ lastOp' = "delete"
                /\ lastPrep' = "none"
                /\ lastCopy' = "none"
                /\ lastCmd' = IF cmdIn /\ DeleteAccepts THEN "Ok" ELSE "Err"
                /\ lastVal' = "none"
                /\ UNCHANGED ioVars
                /\ IF cmdIn /\ DeleteAccepts
                   THEN /\ state' = "Deleted"
                        /\ ctr' = "absent"
                        /\ lastRes' = "Ok"
                   ELSE /\ lastRes' = "Err"
                        /\ UNCHANGED <<state, ctr>>
                /\ UNCHANGED <<wait_block, runtime, io, stdin, pid, status, exited,
                               stdio, pidFile, procStatus, exitObserved>>

\* ------------------------------------------------------------------- kill
kill_state_stops(res, s) == IF res = "Ok" THEN "Stopped" ELSE s

\* The lifecycle state after kill(): the runtime's result is passed on with `?`
\* and Ok(()) is returned; no field of the process is assigned.
kill_state(res, s) == s

Kill ==
    \E cmdIn \in BOOLEAN, sig \in Signals :
        /\ lastRes # "Panic"
        /\ IF runtime = None
           THEN /\ Panic("kill")
                /\ UNCHANGED <<ipVars, envVars>>
           ELSE /\ lastOp' = "kill"
                /\ lastPrep' = "none"
                /\ lastCopy' = "none"
                /\ lastCmd' = IF cmdIn /\ KillAccepts THEN "Ok" ELSE "Err"
                /\ lastVal' = "none"
                /\ UNCHANGED ioVars
                /\ IF cmdIn /\ KillAccepts
                   THEN /\ ctr' = "stopped"
                        /\ procStatus' = 128 + sig
                        /\ lastRes' = "Ok"
                   ELSE /\ lastRes' = "Err"
                        /\ UNCHANGED <<ctr, procStatus>>
                /\ state' = kill_state(lastRes', state)
                /\ UNCHANGED <<wait_block, runtime, io, stdin, pid, status,
                               exited, stdio, pidFile, exitObserved>>

\* ------------------------------------------------------------- set_exited
\* Called by whoever observes the exit of the init process, with its code.
SetExited ==
    /\ lastRes # "Panic"
    /\ ctr = "stopped"
    /\ ~exitObserved
    /\ state' = "Stopped"
    /\ exited' = Some("now")
    /\ status' = procStatus
    /\ exitObserved' = TRUE
    /\ Returns("set_exited", "Ok")
    /\ UNCHANGED <<wait_block, runtime, io, stdin, pid, stdio, ctr, pidFile, procStatus>>

\* ------------------------------------------------------------------- wait
Wait ==
    /\ lastRes # "Panic"
    /\ lastOp' = "wait"
    /\ lastPrep' = "none"
    /\ lastCopy' = "none"
    /\ lastCmd' = "none"
    /\ lastVal' = "none"
    /\ UNCHANGED ioVars
    /\ IF wait_block = None
       THEN \* .take().ok_or_else(|| NotFound)?
            /\ lastRes' = "NotFound"
            /\ UNCHANGED <<ipVars, envVars>>
       ELSE \* the receiver is taken; a receiver whose sender is alive and has
            \* not sent keeps the caller suspended
            /\ wait_block[1] # "empty"
            /\ wait_block' = wait_block_take
            /\ IF wait_block[1] = "sent"
               THEN /\ state' = "Stopped"
                    /\ lastRes' = "Ok"
               ELSE /\ lastRes' = "Err"
                    /\ UNCHANGED state
            /\ UNCHANGED <<runtime, io, stdin, pid, status, exited, stdio, envVars>>

\* ------------------------------------------------------------------ state
\* InitState::state: NotFound for Unknown, the state itself otherwise
state_any(s) == [res |-> "Ok", val |-> s]
state_result(s) ==
    IF s = "Unknown" THEN [res |-> "NotFound", val |-> "none"]
    ELSE [res |-> "Ok", val |-> s]

State ==
    /\ lastRes # "Panic"
    /\ lastOp' = "state"
    /\ lastRes' = state_result(state).res
    /\ lastVal' = state_result(state).val
    /\ lastPrep' = "none"
    /\ lastCopy' = "none"
    /\ lastCmd' = "none"
    /\ UNCHANGED <<ipVars, envVars, ioVars>>

\* ---------------------------------------------- pause, resume, update, exec
\* panic!("unimplemented!")
unimplemented_err(op) == "Unimplemented"
unimplemented(op) == "Panic"

Unimplemented ==
    \E op \in {"pause", "resume", "update", "exec"} :
        /\ lastRes # "Panic"
        /\ lastOp' = op
        /\ lastRes' = unimplemented(op)
        /\ lastPrep' = "none"
        /\ lastCopy' = "none"
        /\ lastCmd' = "none"
        /\ lastVal' = "none"
        /\ UNCHANGED <<ipVars, envVars, ioVars>>

\* --------------------------------------------------- the supervised process
\* The init process of a running container exits by itself.
ProcExit ==
    \E code \in ExitCodes :
        /\ lastRes # "Panic"
        /\ ctr = "running"
        /\ ctr' = "stopped"
        /\ procStatus' = code
        /\ Returns("proc_exit", "Ok")
        /\ UNCHANGED <<ipVars, pidFile, exitObserved>>

\* ============================== create_and_io_preparation, step by step
VARIABLES
    block_on,     \* position of the async block run by rt.block_on
    create,       \* the future returned by RuncAsyncClient::create
    open_stdin,   \* the task spawned to open the write end of the stdin FIFO
    copy_io,      \* the task spawned to run copy_pipes
    proc_io,      \* the ProcessIO moved into the copy_io task
    cmd,          \* the external create process
    cmdStatus,    \* its exit code
    prepRes       \* what create_and_io_preparation returned

crVars == <<block_on, create, open_stdin, copy_io, proc_io, cmd, cmdStatus, prepRes>>
prepVars == <<runtime, io, stdin, ioVars, crVars>>

\* A future that is only awaited makes progress while the async block sits at
\* its .await; a task handed to tokio::spawn is polled by the worker threads
\* wherever the async block is.
awaiting == [create |-> "await_create", open_stdin |-> "await_stdin",
             copy_io |-> "await_copy"]
lazy_future(f) == block_on = awaiting[f]
not_spawned(f) == lazy_future(f)
tokio_spawn(f) == f \in {"open_stdin", "copy_io"}

CrReturn(res) ==
    /\ block_on' = "drop_rt"
    /\ prepRes' = res

\* tokio::runtime::Builder::new_multi_thread().worker_threads(6).build()?
RtBuild ==
    \E ok \in BOOLEAN :
        /\ block_on = "new"
        /\ IF ok
           THEN block_on' = "take" /\ UNCHANGED prepRes
           ELSE block_on' = "returned" /\ prepRes' = "Err"
        /\ UNCHANGED <<runtime, io, stdin, ioVars, create, open_stdin, copy_io,
                       proc_io, cmd, cmdStatus>>

\* self.runtime.take().expect(..); runtime.create(..) builds the future only
TakeRuntime ==
    /\ block_on = "take"
    /\ IF runtime = None
       THEN block_on' = "panicked" /\ UNCHANGED runtime
       ELSE block_on' = "spawn_stdin" /\ runtime' = None
    /\ UNCHANGED <<io, stdin, ioVars, create, open_stdin, copy_io, proc_io, cmd,
                   cmdStatus, prepRes>>

SpawnOpenStdin ==
    /\ block_on = "spawn_stdin"
    /\ open_stdin' = "ready"
    /\ block_on' = "spawn_copy"
    /\ UNCHANGED <<runtime, io, stdin, ioVars, create, copy_io, proc_io, cmd,
                   cmdStatus, prepRes>>

\* self.io.take().expect(..) is moved into the spawned task
SpawnCopyIo ==
    /\ block_on = "spawn_copy"
    /\ IF io = None
       THEN block_on' = "panicked" /\ UNCHANGED <<io, copy_io, proc_io>>
       ELSE /\ block_on' = "await_create"
            /\ proc_io' = io
            /\ io' = None
            /\ copy_io' = "ready"
    /\ UNCHANGED <<runtime, stdin, ioVars, create, open_stdin, cmd, cmdStatus,
                   prepRes>>

\* RuncAsyncClient::create, first poll: MONITOR.start spawns the command
CreateSpawn ==
    \E ok \in BOOLEAN :
        /\ lazy_future("create")
        /\ create = "lazy"
        /\ IF ok
           THEN create' = "wait_output" /\ cmd' = "running"
           ELSE create' = "Err" /\ cmd' = "spawn_failed"
        /\ UNCHANGED <<runtime, io, stdin, ioVars, block_on, open_stdin, copy_io,
                       proc_io, cmdStatus, prepRes>>

\* wait_with_output returns once the process is gone; then the Exit is sent,
\* received, and a non-zero status is CommandFailed. A process killed by a
\* signal has no exit code: out.status.code().unwrap() panics.
CreateNotify ==
    /\ lazy_future("create")
    /\ create = "wait_output"
    /\ cmd \in {"exited", "killed"}
    /\ IF cmd = "killed"
       THEN create' = "panicked" /\ block_on' = "panicked"
       ELSE /\ create' = IF cmdStatus # 0 THEN "Err" ELSE "Ok"
            /\ UNCHANGED block_on
    /\ UNCHANGED <<runtime, io, stdin, ioVars, open_stdin, copy_io, proc_io, cmd,
                   cmdStatus, prepRes>>

\* create.await.map_err(..)?
AwaitCreate ==
    /\ block_on = "await_create"
    /\ create \in {"Ok", "Err"}
    /\ IF create = "Ok"
       THEN block_on' = "await_stdin" /\ UNCHANGED prepRes
       ELSE CrReturn("Err")
    /\ UNCHANGED <<runtime, io, stdin, ioVars, create, open_stdin, copy_io,
                   proc_io, cmd, cmdStatus>>

\* The open_stdin task: nothing to open for an empty path; otherwise Fifo::open
\* (the FIFO exists: metadata, Handler::new and Handler::path succeed) reaches
\* its data-mode open, which the blocking pool runs. O_NONBLOCK is stripped
\* from the flags, so the O_WRONLY open stays in open(2) until a reader opens.
OpenStdinRun ==
    /\ tokio_spawn("open_stdin")
    /\ open_stdin = "ready"
    /\ open_stdin' = IF stdio.stdin = "" THEN "Ok_None" ELSE "opening"
    /\ UNCHANGED <<runtime, io, stdin, ioVars, block_on, create, copy_io, proc_io,
                   cmd, cmdStatus, prepRes>>

\* open(2) of a FIFO: the writer and the reader leave open together
FifoRendezvous ==
    /\ open_stdin = "opening"
    /\ cmd = "opening"
    /\ open_stdin' = "Ok_Some"
    /\ cmd' = "opened"
    /\ UNCHANGED <<runtime, io, stdin, ioVars, block_on, create, copy_io, proc_io,
                   cmdStatus, prepRes>>

\* The copy_io task: proc_io.copy_pipes().await?
CopyIoRun ==
    \E copyIn \in BOOLEAN :
        LET cp == copy_pipes(proc_io[1], copyIn) IN
        /\ tokio_spawn("copy_io")
        /\ copy_io = "ready"
        /\ copy_io' = cp.res
        /\ copyTasks' = cp.tasks
        /\ copyOpens' = cp.opens
        /\ proc_io' = Some(copy_pipes_called(proc_io[1]))
        /\ UNCHANGED <<runtime, io, stdin, block_on, create, open_stdin,
                       cmd, cmdStatus, prepRes>>

\* The external create process opens the read end of the stdin FIFO it was
\* given, and exits; it may be killed by a signal at any moment.
CmdOpenFifo ==
    /\ cmd = "running"
    /\ stdio.stdin # ""
    /\ cmd' = "opening"
    /\ UNCHANGED <<runtime, io, stdin, ioVars, block_on, create, open_stdin,
                   copy_io, proc_io, cmdStatus, prepRes>>

CmdExit ==
    \E code \in ExitCodes :
        /\ \/ cmd = "opened"
           \/ cmd = "running" /\ stdio.stdin = ""
        /\ cmd' = "exited"
        /\ cmdStatus' = code
        /\ UNCHANGED <<runtime, io, stdin, ioVars, block_on, create, open_stdin,
                       copy_io, proc_io, prepRes>>

CmdKilled ==
    /\ cmd \in {"running", "opening", "opened"}
    /\ cmd' = "killed"
    /\ UNCHANGED <<runtime, io, stdin, ioVars, block_on, create, open_stdin,
                   copy_io, proc_io, cmdStatus, prepRes>>

\* open_stdin.await?? ; self.stdin.get_or_insert(f) ; self.runtime.get_or_insert
AwaitStdin ==
    /\ block_on = "await_stdin"
    /\ open_stdin \in {"Ok_None", "Ok_Some", "Err"}
    /\ IF open_stdin = "Err"
       THEN CrReturn("Err") /\ UNCHANGED <<runtime, stdin>>
       ELSE /\ block_on' = "await_copy"
            /\ stdin' = IF open_stdin = "Ok_Some" /\ stdin = None
                        THEN Some("fifo") ELSE stdin
            /\ runtime' = IF runtime = None THEN Some("runc") ELSE runtime
            /\ UNCHANGED prepRes
    /\ UNCHANGED <<io, ioVars, create, open_stdin, copy_io, proc_io, cmd, cmdStatus>>

\* self.io.get_or_insert(copy_io.await??)
AwaitCopy ==
    /\ block_on = "await_copy"
    /\ copy_io \in {"Ok", "Err"}
    /\ CrReturn(copy_io)
    /\ io' = IF copy_io = "Ok" /\ io = None THEN proc_io ELSE io
    /\ UNCHANGED <<runtime, stdin, ioVars, create, open_stdin, copy_io, proc_io,
                   cmd, cmdStatus>>

\* The function returns and rt is dropped: tasks that have not finished are
\* cancelled, and the drop waits for calls running in the blocking pool.
DropRt ==
    /\ block_on = "drop_rt"
    /\ open_stdin # "opening"
    /\ block_on' = "returned"
    /\ open_stdin' = IF open_stdin = "ready" THEN "cancelled" ELSE open_stdin
    /\ copy_io' = IF copy_io = "ready" THEN "cancelled" ELSE copy_io
    /\ UNCHANGED <<runtime, io, stdin, ioVars, create, proc_io, cmd, cmdStatus,
                   prepRes>>

\* ================================================================== Fifo
VARIABLES
    fsPath,    \* the inode the FIFO path names (0: the path does not exist)
    inodes,    \* inodes made so far; the next mkfifo makes inodes + 1
    unlinks,   \* times the other actor has unlinked the path
    fifo,      \* per opener: position in Fifo::open, O_CREAT, O_NONBLOCK,
               \* Handler.ino (the identity captured), the inode of Fifo.file, the error
    swapped,   \* openers whose path was recreated between Handler::new and
               \* the end of their data-mode open
    pipe,      \* the bytes in the kernel buffer of the connected FIFO
    data,      \* the bytes the writer has to write
    wpos,      \* how many of them poll_write has reported written
    rcvd,      \* the bytes poll_read has handed to the reader
    eof        \* the reader has read end-of-file

ffVars == <<fsPath, inodes, unlinks, fifo, swapped, pipe, data, wpos, rcvd, eof>>

Openers == {"w", "r"}
Bytes == 0..MaxByte
Min(a, b) == IF a < b THEN a ELSE b
BSeq(S, n) == UNION {[1..k -> S] : k \in 0..n}

Opener(creat, nonblock) ==
    [pc |-> "start", creat |-> creat, nonblock |-> nonblock, ino |-> 0,
     file |-> 0, err |-> ""]
Failed(o, e) == [fifo EXCEPT ![o].pc = "failed", ![o].err = e]

\* The file that "/proc/self/fd/<fd>" names is the one the O_PATH descriptor
\* was opened on, whatever the path names by now.
by_name(h) == fsPath
proc_path(h) == h.ino

\* fs::metadata(&path): NotFound with O_CREAT goes on to mkfifo, any other
\* error is returned
Metadata(o) ==
    /\ fifo[o].pc = "start"
    /\ fifo' = IF fsPath # 0 THEN [fifo EXCEPT ![o].pc = "handler"]
               ELSE IF fifo[o].creat THEN [fifo EXCEPT ![o].pc = "mkfifo"]
               ELSE Failed(o, "NotFound")
    /\ UNCHANGED <<fsPath, inodes, unlinks, swapped, pipe, data, wpos, rcvd, eof>>

\* unistd::mkfifo(path, perm)?
Mkfifo(o) ==
    /\ fifo[o].pc = "mkfifo"
    /\ IF fsPath # 0
       THEN fifo' = Failed(o, "EEXIST") /\ UNCHANGED <<fsPath, inodes>>
       ELSE /\ fifo' = [fifo EXCEPT ![o].pc = "handler"]
            /\ inodes' = inodes + 1
            /\ fsPath' = inodes + 1
    /\ UNCHANGED <<unlinks, swapped, pipe, data, wpos, rcvd, eof>>

\* Handler::new: fcntl::open(path, O_PATH)? ; fstat(fd)? gives dev and ino
HandlerNew(o) ==
    /\ fifo[o].pc = "handler"
    /\ fifo' = IF fsPath = 0 THEN Failed(o, "ENOENT")
               ELSE [fifo EXCEPT ![o].pc = "path", ![o].ino = fsPath]
    /\ UNCHANGED <<fsPath, inodes, unlinks, swapped, pipe, data, wpos, rcvd, eof>>

\* Handler::path: stat(proc_path) compared with the captured dev and ino
HandlerPath(o) ==
    /\ fifo[o].pc = "path"
    /\ fifo' = IF proc_path(fifo[o]) # fifo[o].ino THEN Failed(o, "EBADFD")
               ELSE [fifo EXCEPT ![o].pc = "data_open"]
    /\ UNCHANGED <<fsPath, inodes, unlinks, swapped, pipe, data, wpos, rcvd, eof>>

\* flag &= !OFlag::O_CREAT; flag &= !OFlag::O_NONBLOCK: the flags that reach
\* open(2); `block`, computed from the flags before, is not used.
open_flags(f) == [creat |-> FALSE, nonblock |-> FALSE]

\* The opener is suspended in opts.open(&path).await: open(2) of one end of a
\* FIFO without O_NONBLOCK returns once the other end is being opened too.
OpenSuspended(o) ==
    /\ fifo[o].pc = "data_open"
    /\ ~open_flags(fifo[o]).nonblock
    /\ ~(\E q \in Openers \ {o} :
            /\ fifo[q].pc = "data_open"
            /\ proc_path(fifo[q]) = proc_path(fifo[o]))

\* opts.open(&path): the openers whose open(2) returns in this step, the two
\* ends of one FIFO together, or one opener alone were O_NONBLOCK to reach
\* open(2)
DataOpen ==
    \E S \in SUBSET Openers :
        /\ S # {}
        /\ \A o \in S : fifo[o].pc = "data_open" /\ ~OpenSuspended(o)
        /\ \A o \in S : open_flags(fifo[o]).nonblock \/ S = Openers
        /\ fifo' = [o \in Openers |->
                      IF o \in S
                      THEN [fifo[o] EXCEPT !.pc = "open",
                                           !.file = proc_path(fifo[o])]
                      ELSE fifo[o]]
        /\ UNCHANGED <<fsPath, inodes, unlinks, swapped, pipe, data, wpos, rcvd, eof>>

\* The other actor: unlink(path), and mkfifo(path) of a new file
Unlink ==
    /\ fsPath # 0
    /\ unlinks < MaxUnlink
    /\ unlinks' = unlinks + 1
    /\ fsPath' = 0
    /\ UNCHANGED <<inodes, fifo, swapped, pipe, data, wpos, rcvd, eof>>

Recreate ==
    /\ fsPath = 0
    /\ unlinks > 0
    /\ inodes' = inodes + 1
    /\ fsPath' = inodes + 1
    /\ swapped' = swapped \cup {o \in Openers : fifo[o].pc \in {"path", "data_open"}}
    /\ UNCHANGED <<unlinks, fifo, pipe, data, wpos, rcvd, eof>>

\* AsyncWrite::poll_write hands the buffer to self.file: the pipe takes what
\* it has room for and that count is returned
poll_write_whole(buf, bytes) ==
    [pipe |-> buf \o SubSeq(bytes, 1, Min(Len(bytes), PipeCap - Len(buf))),
     n |-> Len(bytes)]
poll_write(buf, bytes) ==
    LET k == Min(Len(bytes), PipeCap - Len(buf))
    IN  [pipe |-> buf \o SubSeq(bytes, 1, k), n |-> k]

\* AsyncRead::poll_read fills the caller's buffer from self.file
poll_read(buf, room) ==
    LET k == Min(room, Len(buf))
    IN  [bytes |-> SubSeq(buf, 1, k), pipe |-> SubSeq(buf, k + 1, Len(buf))]

Write ==
    \E n \in 1..MaxLen :
        LET w == poll_write(pipe, SubSeq(data, wpos + 1, Min(Len(data), wpos + n))) IN
        /\ fifo["w"].pc = "open"
        /\ wpos < Len(data)
        /\ Len(pipe) < PipeCap
        /\ pipe' = w.pipe
        /\ wpos' = wpos + w.n
        /\ UNCHANGED <<fsPath, inodes, unlinks, fifo, swapped, data, rcvd, eof>>

\* the writer drops its Fifo: the write end is closed
WriterDrop ==
    /\ fifo["w"].pc = "open"
    /\ fifo' = [fifo EXCEPT !["w"].pc = "closed"]
    /\ UNCHANGED <<fsPath, inodes, unlinks, swapped, pipe, data, wpos, rcvd, eof>>

\* a read of an empty pipe waits while a writer holds the FIFO open and
\* returns 0 bytes once none does
Read ==
    \E room \in 1..MaxLen :
        LET r == poll_read(pipe, room) IN
        /\ fifo["r"].pc = "open"
        /\ ~eof
        /\ pipe # <<>> \/ fifo["w"].pc = "closed"
        /\ pipe' = r.pipe
        /\ rcvd' = rcvd \o r.bytes
        /\ eof' = (pipe = <<>>)
        /\ UNCHANGED <<fsPath, inodes, unlinks, fifo, swapped, data, wpos>>

FfIdle ==
    /\ fsPath = 1
    /\ inodes = 1
    /\ unlinks = 0
    /\ fifo = [o \in Openers |-> Opener(FALSE, FALSE)]
    /\ swapped = {}
    /\ pipe = <<>>
    /\ data = <<>>
    /\ wpos = 0
    /\ rcvd = <<>>
    /\ eof = FALSE

\* ======================================================== ProcessMonitor
VARIABLES
    monStart,     \* position of ProcessMonitor::start
    monStartRes,  \* what start returned
    monWait,      \* position of ProcessMonitor::wait
    monWaitRes,   \* what wait returned: None, Some(Exit) or Some("BrokenPipe")
    tx,           \* the Sender: "alive", "sent" (consumed by send), "dropped"
    rx,           \* the Receiver: "alive", "dropped"
    slot,         \* the value in the channel
    chi,          \* the child: "none", "running", "exited", "signaled"
    chiPid,
    chiCode,
    sends,        \* Exit values accepted by the channel
    forget,       \* start's forget argument
    cmdMem        \* the Command start was given: "owned", "forgotten", "dropped"

monVars == <<monStart, monStartRes, monWait, monWaitRes, tx, rx, slot, chi, chiPid,
             chiCode, sends, forget, cmdMem>>

Exit(p, c) == [pid |-> p, status |-> c]

\* ExitStatus::code(): the exit code, None for a child ended by a signal
status_code == IF chi = "exited" THEN Some(chiCode) ELSE None

\* cmd.spawn()? ; chi.id()
MonSpawn ==
    \E ok \in BOOLEAN, p \in Pids :
        /\ monStart = "init"
        /\ IF ok
           THEN /\ monStart' = "wait_with_output"
                /\ chi' = "running"
                /\ chiPid' = p
                /\ UNCHANGED <<monStartRes, tx>>
                /\ UNCHANGED cmdMem
           ELSE /\ monStart' = "returned"
                /\ monStartRes' = "SpawnErr"
                /\ tx' = "dropped"
                /\ cmdMem' = "dropped"
                /\ UNCHANGED <<chi, chiPid>>
        /\ UNCHANGED <<monWait, monWaitRes, rx, slot, chiCode, sends, forget>>

\* the command ends: it exits with a code, or a signal ends it
ChiExit ==
    \E c \in ExitCodes :
        /\ chi = "running"
        /\ chi' = "exited"
        /\ chiCode' = c
        /\ UNCHANGED <<monStart, monStartRes, monWait, monWaitRes, tx, rx, slot,
                       chiPid, sends, forget, cmdMem>>

ChiSignaled ==
    /\ chi = "running"
    /\ chi' = "signaled"
    /\ UNCHANGED <<monStart, monStartRes, monWait, monWaitRes, tx, rx, slot,
                   chiPid, chiCode, sends, forget, cmdMem>>

\* chi.wait_with_output().await? returns once the child is gone
MonOutput ==
    \E ok \in BOOLEAN :
        /\ monStart = "wait_with_output"
        /\ chi \in {"exited", "signaled"}
        /\ IF ok
           THEN /\ monStart' = "send"
                /\ UNCHANGED <<monStartRes, tx, cmdMem>>
           ELSE /\ monStart' = "returned"
                /\ monStartRes' = "WaitErr"
                /\ tx' = "dropped"
                /\ cmdMem' = "dropped"
        /\ UNCHANGED <<monWait, monWaitRes, rx, slot, chi, chiPid, chiCode, sends,
                       forget>>

\* tx.send(Exit {ts, pid, status: out.status.code().unwrap()}): send fails when
\* the receiver is gone; the Command is forgotten on success when asked
MonSend ==
    /\ monStart = "send"
    /\ cmdMem' = IF status_code # None /\ rx = "alive" /\ forget
                 THEN "forgotten" ELSE "dropped"
    /\ IF status_code = None
       THEN /\ monStart' = "panicked"
            /\ tx' = "dropped"
            /\ UNCHANGED <<monStartRes, slot, sends>>
       ELSE /\ monStart' = "returned"
            /\ tx' = "sent"
            /\ IF rx = "alive"
               THEN /\ slot' = Some(Exit(chiPid, status_code[1]))
                    /\ sends' = sends + 1
                    /\ monStartRes' = "Ok"
               ELSE /\ monStartRes' = "ConnectionRefused"
                    /\ UNCHANGED <<slot, sends>>
    /\ UNCHANGED <<monWait, monWaitRes, rx, chi, chiPid, chiCode, forget>>

\* wait is polled for the first time: rx.await is pending or ready
MonWaitPoll ==
    /\ monWait = "init"
    /\ rx = "alive"
    /\ monWait' = "rx_await"
    /\ UNCHANGED <<monStart, monStartRes, monWaitRes, tx, rx, slot, chi, chiPid,
                   chiCode, sends, forget, cmdMem>>

\* rx.await resolves with the value, or with RecvError once the sender is
\* gone without a value: map_err(.. BrokenPipe)
MonWaitRecv ==
    /\ monWait = "rx_await"
    /\ slot # None \/ tx = "dropped"
    /\ monWait' = "returned"
    /\ monWaitRes' = IF slot # None THEN slot ELSE Some("BrokenPipe")
    /\ slot' = None
    /\ rx' = "dropped"
    /\ UNCHANGED <<monStart, monStartRes, tx, chi, chiPid, chiCode, sends, forget,
                   cmdMem>>

\* the caller drops the Receiver without calling wait
RxDrop ==
    /\ monWait = "init"
    /\ rx = "alive"
    /\ rx' = "dropped"
    /\ monWait' = "dropped"
    /\ slot' = None
    /\ UNCHANGED <<monStart, monStartRes, monWaitRes, tx, chi, chiPid, chiCode,
                   sends, forget, cmdMem>>

MonInit ==
    /\ monStart = "init"
    /\ monStartRes = "none"
    /\ monWait = "init"
    /\ monWaitRes = None
    /\ tx = "alive"
    /\ rx = "alive"
    /\ slot = None
    /\ chi = "none"
    /\ chiPid = 0
    /\ chiCode = 0
    /\ sends = 0
    /\ forget = FALSE
    /\ cmdMem = "owned"

CrInit ==
    /\ block_on = "new"
    /\ create = "lazy"
    /\ open_stdin = "unspawned"
    /\ copy_io = "unspawned"
    /\ proc_io = None
    /\ cmd = "unspawned"
    /\ cmdStatus = 0
    /\ prepRes = "none"

\* ----------------------------------------------------------- Task service
\* The ttrpc Task service over the global CONTAINERS map.  A Container is its
\* init process (process_self) and the map of exec'd processes; mounts[id] is
\* the number of mounts stacked on the rootfs directory of the bundle of id.
VARIABLES CONTAINERS, mounts, rpcOp, rpcId, rpcExec, rpcRes, rpcPid, rpcCmd

taskVars == <<CONTAINERS, mounts, rpcOp, rpcId, rpcExec, rpcRes, rpcPid, rpcCmd>>

MaxMounts == 3
MaxStack == 4
ContainerIds == {"", "a"}
ExecIds == {"", "e"}

NoProcesses == [k \in {} |-> 0]

\* Container { process_self: init, ..Default::default() }
Container(p) ==
    [process_self |-> [state |-> "Created", pid |-> p, wait_block |-> TRUE],
     processes |-> NoProcesses]

\* utils::mount for each entry (all on the one rootfs directory), then
\* InitProcess::new and init.create(config)?
inner_new(n, failAt, terminal, initOk, p) ==
    IF failAt \in 1..n THEN [res |-> "Err", applied |-> failAt - 1, pid |-> 0]
    ELSE IF terminal THEN [res |-> "Panic", applied |-> n, pid |-> 0]
    ELSE IF ~initOk THEN [res |-> "Err", applied |-> n, pid |-> 0]
    ELSE [res |-> "Ok", applied |-> n, pid |-> p]

\* sys_mount::unmount(rootfs, UnmountFlags::empty()): one umount(2), which
\* detaches the topmost mount of the directory; rootfs is the empty path when
\* the request has no rootfs entries, and the result is only logged
unmount(stacked, n) == IF n > 0 /\ stacked > 0 THEN stacked - 1 ELSE stacked

\* Container::new: mkdir rootfs, write_options, write_runtime, inner_new and
\* one unmount when inner_new returns an error
Container_new(n, failAt, mkdirOk, writeOk, terminal, initOk, p, stack) ==
    IF (n > 0 /\ ~mkdirOk) \/ ~writeOk
    THEN [res |-> "Err", pid |-> 0, stack |-> stack]
    ELSE LET r == inner_new(n, failAt, terminal, initOk, p)
         IN  [res |-> r.res, pid |-> r.pid,
              stack |-> IF r.res = "Err" THEN unmount(stack + r.applied, n)
                        ELSE stack + r.applied]

\* Task::create: Container::new(_req) first, then the contains_key test
TaskCreate ==
    \E id \in ContainerIds, n \in 0..MaxMounts, failAt \in 0..MaxMounts,
       mkdirOk \in BOOLEAN, writeOk \in BOOLEAN, terminal \in BOOLEAN,
       initOk \in BOOLEAN, p \in Pids :
        /\ rpcRes # "Panic"
        /\ failAt <= n
        /\ mounts[id] + n <= MaxStack
        /\ LET r == Container_new(n, failAt, mkdirOk, writeOk, terminal, initOk,
                                  p, mounts[id])
           IN  /\ mounts' = [mounts EXCEPT ![id] = r.stack]
               /\ rpcOp' = "create"
               /\ rpcId' = id
               /\ rpcExec' = ""
               /\ rpcCmd' = "none"
               /\ IF r.res # "Ok"
                  THEN /\ rpcRes' = IF r.res = "Panic" THEN "Panic"
                                    ELSE "CreateFailed"
                       /\ rpcPid' = 0
                       /\ UNCHANGED CONTAINERS
                  ELSE IF id \in DOMAIN CONTAINERS
                  THEN /\ rpcRes' = "AlreadyExists"
                       /\ rpcPid' = 0
                       /\ UNCHANGED CONTAINERS
                  ELSE /\ rpcRes' = "Ok"
                       /\ rpcPid' = r.pid
                       /\ CONTAINERS' = [k \in DOMAIN CONTAINERS \cup {id} |->
                                           IF k = id THEN Container(r.pid)
                                           ELSE CONTAINERS[k]]

process_from_map(c, id) ==
    IF id \in DOMAIN c.processes THEN Some(c.processes[id]) ELSE None

\* Container::process: the init process for "", else processes.get(id)
process(c, id) ==
    IF id = "" THEN Some(c.process_self)
    ELSE IF id \in DOMAIN c.processes THEN Some(c.processes[id])
    ELSE None

\* Container::start: the process is selected by req.id, then p.start()?
start_key(req_id, exec_id) == req_id

Container_start(c, req_id, exec_id, cmdOk) ==
    LET key == start_key(req_id, exec_id)
    IN  IF process(c, key) = None
        THEN [res |-> "Err", cmd |-> "none", pid |-> 0, c |-> c]
        ELSE LET q == process(c, key)[1]
                 ok == cmdOk /\ q.state = "Created"
                 q2 == [q EXCEPT !.state = start_state(ok, q.state)]
             IN  [res |-> IF ok THEN "Ok" ELSE "Err",
                  cmd |-> IF ok THEN "Ok" ELSE "Err",
                  pid |-> IF ok THEN q.pid ELSE 0,
                  c |-> IF key = "" THEN [c EXCEPT !.process_self = q2]
                        ELSE [c EXCEPT !.processes[key] = q2]]

\* Task::start
TaskStart ==
    \E id \in ContainerIds, ex \in ExecIds, cmdOk \in BOOLEAN :
        /\ rpcRes # "Panic"
        /\ rpcOp' = "start"
        /\ rpcId' = id
        /\ rpcExec' = ex
        /\ UNCHANGED mounts
        /\ IF id \notin DOMAIN CONTAINERS
           THEN /\ rpcRes' = "NotFound"
                /\ rpcPid' = 0
                /\ rpcCmd' = "none"
                /\ UNCHANGED CONTAINERS
           ELSE LET r == Container_start(CONTAINERS[id], id, ex, cmdOk)
                IN  /\ rpcRes' = IF r.res = "Ok" THEN "Ok" ELSE "Unknown"
                    /\ rpcPid' = r.pid
                    /\ rpcCmd' = r.cmd
                    /\ CONTAINERS' = [CONTAINERS EXCEPT ![id] = r.c]

\* Task::state
TaskState ==
    \E id \in ContainerIds, ex \in ExecIds :
        /\ rpcRes # "Panic"
        /\ rpcOp' = "state"
        /\ rpcId' = id
        /\ rpcExec' = ex
        /\ rpcCmd' = "none"
        /\ UNCHANGED <<CONTAINERS, mounts>>
        /\ IF id \notin DOMAIN CONTAINERS \/ process(CONTAINERS[id], ex) = None
           THEN /\ rpcRes' = "NotFound"
                /\ rpcPid' = 0
           ELSE /\ rpcRes' = "Ok"
                /\ rpcPid' = process(CONTAINERS[id], ex)[1].pid

\* Container::process_mut, which Task::wait calls: the same selection
process_mut(c, id) == process(c, id)

\* Task::wait: InitProcess::wait takes wait_block (sent on by create) and sets
\* Stopped; every error is answered NOT_FOUND
TaskWait ==
    \E id \in ContainerIds, ex \in ExecIds :
        /\ rpcRes # "Panic"
        /\ rpcOp' = "wait"
        /\ rpcId' = id
        /\ rpcExec' = ex
        /\ rpcCmd' = "none"
        /\ rpcPid' = 0
        /\ UNCHANGED mounts
        /\ IF id \notin DOMAIN CONTAINERS \/ process_mut(CONTAINERS[id], ex) = None
           THEN /\ rpcRes' = "NotFound"
                /\ UNCHANGED CONTAINERS
           ELSE LET q == process_mut(CONTAINERS[id], ex)[1]
                IN  IF q.wait_block
                    THEN /\ rpcRes' = "Ok"
                         /\ CONTAINERS' =
                              [CONTAINERS EXCEPT ![id].process_self =
                                  [q EXCEPT !.wait_block = FALSE,
                                            !.state = "Stopped"]]
                    ELSE /\ rpcRes' = "NotFound"
                         /\ UNCHANGED CONTAINERS

\* Container::kill: Err("not implemented yet")
Container_kill(c) == "Err"

\* Task::kill
TaskKill ==
    \E id \in ContainerIds, ex \in ExecIds :
        /\ rpcRes # "Panic"
        /\ rpcOp' = "kill"
        /\ rpcId' = id
        /\ rpcExec' = ex
        /\ rpcCmd' = "none"
        /\ rpcPid' = 0
        /\ UNCHANGED <<CONTAINERS, mounts>>
        /\ rpcRes' = IF id \in DOMAIN CONTAINERS /\ Container_kill(CONTAINERS[id]) = "Ok"
                     THEN "Ok" ELSE "NotFound"

\* Container::delete: self.process(id)? and then Err("not implemented yet")
Container_delete(c, id) == "Err"

\* Task::delete: the entry stays in CONTAINERS on either arm of the match
TaskDelete ==
    \E id \in ContainerIds, ex \in ExecIds :
        /\ rpcRes # "Panic"
        /\ rpcOp' = "delete"
        /\ rpcId' = id
        /\ rpcExec' = ex
        /\ rpcCmd' = "none"
        /\ UNCHANGED <<CONTAINERS, mounts>>
        /\ IF id \in DOMAIN CONTAINERS /\ Container_delete(CONTAINERS[id], ex) = "Ok"
           THEN /\ rpcRes' = "Ok"
                /\ rpcPid' = CONTAINERS[id].process_self.pid
           ELSE /\ rpcRes' = "NotFound"
                /\ rpcPid' = 0

\* CONTAINERS: Lazy::new(|| RwLock::new(HashMap::new()))
TaskInit ==
    /\ CONTAINERS = [k \in {} |-> 0]
    /\ mounts = [k \in ContainerIds |-> 0]
    /\ rpcOp = "none"
    /\ rpcId = ""
    /\ rpcExec = ""
    /\ rpcRes = "none"
    /\ rpcPid = 0
    /\ rpcCmd = "none"

\* ------------------------------------------------------- runtime client
\* One operation of RuncClient (sync) or RuncAsyncClient (async).  kids holds
\* the processes spawned for the operation in spawn order, awaited is the
\* index of the one whose output the operation waits for.
VARIABLES rcPhase, rcClient, rcOp, rcIo, kids, awaited, spawnFailed, rcRes,
          rcStatus

rcVars == <<rcPhase, rcClient, rcOp, rcIo, kids, awaited, spawnFailed, rcRes,
            rcStatus>>

RcOps == {"create", "run", "exec", "delete", "start", "kill"}

Running == [st |-> "running", code |-> 0]
Exited(c) == [st |-> "exited", code |-> c]
Signaled == [st |-> "signaled", code |-> 0]

\* if status.success() { Ok(RuncResponse) } else { Err(CommandFailed) }
launch_result(k) ==
    IF k.st = "exited" /\ k.code = 0 THEN [res |-> "Ok", status |-> 0]
    ELSE IF k.st = "exited" THEN [res |-> "CommandFailed", status |-> k.code]
    ELSE [res |-> "CommandFailed", status |-> -1]

RcDone(res, st) ==
    /\ rcPhase' = "done"
    /\ rcRes' = res
    /\ rcStatus' = st

\* the operation builds its arguments and command (each step with ?); the
\* async exec is Err(Unimplemented) and the async create with io drives the
\* monitor itself instead of going through launch
RcCall ==
    \E cl \in {"sync", "async"}, op \in RcOps, withIo \in BOOLEAN,
       prepOk \in BOOLEAN :
        /\ rcPhase = "idle"
        /\ withIo => op \in {"create", "run", "exec"}
        /\ rcClient' = cl
        /\ rcOp' = op
        /\ rcIo' = withIo
        /\ UNCHANGED <<kids, awaited, spawnFailed>>
        /\ IF cl = "async" /\ op = "exec" THEN RcDone("Unimplemented", -1)
           ELSE IF ~prepOk THEN RcDone("Other", -1)
           ELSE /\ rcPhase' = IF cl = "async" /\ op = "create" /\ withIo
                              THEN "monitor" ELSE "launch"
                /\ UNCHANGED <<rcRes, rcStatus>>

\* launch: cmd.spawn().map_err(ProcessSpawnFailed)?; the sync client waits
\* for this child, the async client hands the command to the monitor
LaunchSpawn ==
    \E ok \in BOOLEAN :
        /\ rcPhase = "launch"
        /\ UNCHANGED <<rcClient, rcOp, rcIo>>
        /\ IF ok
           THEN /\ kids' = Append(kids, Running)
                /\ awaited' = IF rcClient = "sync" THEN Len(kids) + 1 ELSE awaited
                /\ rcPhase' = IF rcClient = "sync" THEN "wait" ELSE "monitor"
                /\ UNCHANGED <<spawnFailed, rcRes, rcStatus>>
           ELSE /\ spawnFailed' = TRUE
                /\ RcDone("ProcessSpawnFailed", -1)
                /\ UNCHANGED <<kids, awaited>>

\* MONITOR.start: cmd.spawn()? on the same command; its io::Error comes back
\* through start.await.map_err(Error::InvalidCommand)?
MonitorSpawn ==
    \E ok \in BOOLEAN :
        /\ rcPhase = "monitor"
        /\ UNCHANGED <<rcClient, rcOp, rcIo>>
        /\ IF ok
           THEN /\ kids' = Append(kids, Running)
                /\ awaited' = Len(kids) + 1
                /\ rcPhase' = "wait"
                /\ UNCHANGED <<spawnFailed, rcRes, rcStatus>>
           ELSE /\ spawnFailed' = TRUE
                /\ RcDone("InvalidCommand", -1)
                /\ UNCHANGED <<kids, awaited>>

\* a spawned process exits with a code or is ended by a signal
KidExit ==
    \E i \in 1..Len(kids), k \in {Exited(c) : c \in ExitCodes} \cup {Signaled} :
        /\ kids[i] = Running
        /\ kids' = [kids EXCEPT ![i] = k]
        /\ UNCHANGED <<rcPhase, rcClient, rcOp, rcIo, awaited, spawnFailed,
                       rcRes, rcStatus>>

\* wait_with_output (an io::Error is InvalidCommand), in the monitor
\* out.status.code().unwrap(), the ls of /proc/self/fd with .unwrap(), then
\* the test of the status
RcReturn ==
    \E waitOk \in BOOLEAN, lsOk \in BOOLEAN :
        /\ rcPhase = "wait"
        /\ kids[awaited] # Running
        /\ UNCHANGED <<rcClient, rcOp, rcIo, kids, awaited, spawnFailed>>
        /\ IF ~waitOk THEN RcDone("InvalidCommand", -1)
           ELSE IF rcClient = "async" /\ kids[awaited] = Signaled
           THEN RcDone("Panic", -1)
           ELSE IF ~lsOk /\ ~(rcClient = "async" /\ rcOp = "create" /\ rcIo)
           THEN RcDone("Panic", -1)
           ELSE RcDone(launch_result(kids[awaited]).res,
                       launch_result(kids[awaited]).status)

RcInit ==
    /\ rcPhase = "idle"
    /\ rcClient = "sync"
    /\ rcOp = "create"
    /\ rcIo = FALSE
    /\ kids = <<>>
    /\ awaited = 0
    /\ spawnFailed = FALSE
    /\ rcRes = "none"
    /\ rcStatus = -1

\* ============================================================ process mutex
\* The methods of InitProcess called from separate threads, with the mutex
\* `mu` of the process as the only synchronisation between them.  Every method
\* is the sequence of its steps; the fields are the lifecycle variables above.
VARIABLES muHolder, thOp, thPc, thArg, thObs, muLast

muVars == <<muHolder, thOp, thPc, thArg, thObs, muLast>>

Threads == {1, 2}

MuOps ==
    {"start", "set_exited", "state", "exit_status", "exited_at", "pid", "wait",
     "kill", "delete"}

set_exited_prog_unlocked == <<"w_state", "w_exited", "w_status">>

\* set_exited: let _m = self.mu.lock().unwrap(); then the three assignments;
\* the guard is dropped at the end of the function.
set_exited_prog == <<"lock", "w_state", "w_exited", "w_status", "unlock">>

\* The steps of each method.  start() has its lock line commented out, pid()
\* and wait() never had one.
mu_prog(op) ==
    CASE op = "start" -> <<"cmd", "w_state">>
      [] op = "set_exited" -> set_exited_prog
      [] op = "state" -> <<"lock", "r_state", "unlock">>
      [] op = "exit_status" -> <<"lock", "r_status", "unlock">>
      [] op = "exited_at" -> <<"lock", "r_exited", "unlock">>
      [] op = "pid" -> <<"r_pid">>
      [] op = "wait" -> <<"take", "w_state">>
      [] op = "kill" -> <<"lock", "cmd", "unlock">>
      [] op = "delete" -> <<"lock", "cmd", "w_state", "unlock">>

\* The value a method assigns to self.state.
mu_target(op) ==
    CASE op = "start" -> "Running"
      [] op = "set_exited" -> "Stopped"
      [] op = "wait" -> "Stopped"
      [] op = "delete" -> "Deleted"

IsWrite(l) == l \in {"w_state", "w_exited", "w_status"}
IsRead(l) == l \in {"r_state", "r_status", "r_exited", "r_pid"}

MuCur(t) ==
    IF thOp[t] = "idle" THEN "none" ELSE mu_prog(thOp[t])[thPc[t]]

\* A set_exited that has assigned some of its three fields and not yet all.
Torn ==
    \E t \in Threads :
        /\ thOp[t] = "set_exited"
        /\ \E i \in 1..(thPc[t] - 1) : IsWrite(mu_prog("set_exited")[i])
        /\ \E j \in thPc[t]..Len(mu_prog("set_exited")) :
               IsWrite(mu_prog("set_exited")[j])

\* The thread goes on to its next step, or returns after its last one.
MuAdvance(t) ==
    IF thPc[t] = Len(mu_prog(thOp[t]))
    THEN /\ thOp' = [thOp EXCEPT ![t] = "idle"]
         /\ thPc' = [thPc EXCEPT ![t] = 0]
    ELSE /\ thPc' = [thPc EXCEPT ![t] = thPc[t] + 1]
         /\ UNCHANGED thOp

\* An early return: the MutexGuard, if the thread has one, is dropped.
MuReturn(t) ==
    /\ thOp' = [thOp EXCEPT ![t] = "idle"]
    /\ thPc' = [thPc EXCEPT ![t] = 0]
    /\ muHolder' = IF muHolder = t THEN 0 ELSE muHolder

MuFields == <<state, pid, status, exited, wait_block>>

MuCall(t) ==
    /\ thOp[t] = "idle"
    /\ \E op \in MuOps, st \in 1..MaxStatus :
        /\ thOp' = [thOp EXCEPT ![t] = op]
        /\ thArg' = [thArg EXCEPT ![t] = st]
        /\ muLast' = [t |-> t, kind |-> "call", op |-> op]
    /\ thPc' = [thPc EXCEPT ![t] = 1]
    /\ thObs' = [thObs EXCEPT ![t] = <<>>]
    /\ UNCHANGED <<muHolder, MuFields>>

\* self.mu.lock(): the thread waits while another one holds the mutex.
MuLock(t) ==
    /\ MuCur(t) = "lock"
    /\ muHolder = 0
    /\ muHolder' = t
    /\ muLast' = [t |-> t, kind |-> "lock", op |-> thOp[t]]
    /\ MuAdvance(t)
    /\ UNCHANGED <<thArg, thObs, MuFields>>

\* The guard _m goes out of scope at the end of the method.
MuUnlock(t) ==
    /\ MuCur(t) = "unlock"
    /\ muHolder' = 0
    /\ muLast' = [t |-> t, kind |-> "unlock", op |-> thOp[t]]
    /\ MuAdvance(t)
    /\ UNCHANGED <<thArg, thObs, MuFields>>

\* block_on(runtime.start / kill / delete) followed by `?`.
MuCmd(t) ==
    /\ MuCur(t) = "cmd"
    /\ muLast' = [t |-> t, kind |-> "cmd", op |-> thOp[t]]
    /\ \E ok \in BOOLEAN :
        IF ok
        THEN MuAdvance(t) /\ UNCHANGED muHolder
        ELSE MuReturn(t)
    /\ UNCHANGED <<thArg, thObs, MuFields>>

\* One assignment to a field of self.
MuWrite(t) ==
    /\ IsWrite(MuCur(t))
    /\ muLast' = [t |-> t, kind |-> "write", op |-> thOp[t]]
    /\ state' = IF MuCur(t) = "w_state" THEN mu_target(thOp[t]) ELSE state
    /\ exited' = IF MuCur(t) = "w_exited" THEN Some("now") ELSE exited
    /\ status' = IF MuCur(t) = "w_status" THEN thArg[t] ELSE status
    /\ MuAdvance(t)
    /\ UNCHANGED <<muHolder, thArg, thObs, pid, wait_block>>

\* One read of a field of self, returned to the caller.
MuRead(t) ==
    /\ IsRead(MuCur(t))
    /\ muLast' = [t |-> t, kind |-> "read", op |-> thOp[t]]
    /\ thObs' = [thObs EXCEPT ![t] =
                    CASE MuCur(t) = "r_state" -> <<state>>
                      [] MuCur(t) = "r_status" -> <<status>>
                      [] MuCur(t) = "r_exited" -> <<exited>>
                      [] MuCur(t) = "r_pid" -> <<pid>>]
    /\ MuAdvance(t)
    /\ UNCHANGED <<muHolder, thArg, MuFields>>

\* wait(): self.wait_block.take().ok_or(NotFound)?, then the receiver is
\* awaited; the value was sent by create.
MuTake(t) ==
    /\ MuCur(t) = "take"
    /\ muLast' = [t |-> t, kind |-> "take", op |-> thOp[t]]
    /\ IF wait_block = None
       THEN MuReturn(t) /\ UNCHANGED wait_block
       ELSE /\ wait_block' = None
            /\ MuAdvance(t)
            /\ UNCHANGED muHolder
    /\ UNCHANGED <<thArg, thObs, state, pid, status, exited>>

MuInit ==
    /\ muHolder = 0
    /\ thOp = [t \in Threads |-> "idle"]
    /\ thPc = [t \in Threads |-> 0]
    /\ thArg = [t \in Threads |-> 1]
    /\ thObs = [t \in Threads |-> <<>>]
    /\ muLast = [t |-> 0, kind |-> "none", op |-> "none"]

\* =============================================================== lock order
\* The locks the Task service takes while it serves a request: the CONTAINERS
\* registry lock, the mutex of the container and the mutex of its process.
\* Every request is the sequence of its acquisitions and releases.
VARIABLES lkHolder, lkOp, lkPc

lkVars == <<lkHolder, lkOp, lkPc>>

Locks == {"registry", "container", "process"}

lock_rank(l) ==
    CASE l = "registry" -> 1
      [] l = "container" -> 2
      [] l = "process" -> 3

Acq(l) == [a |-> "acq", l |-> l]
Rel(l) == [a |-> "rel", l |-> l]

TaskOps == {"create", "start", "state", "wait", "kill", "delete"}

start_locks_inverted ==
    <<Acq("container"), Acq("registry"), Rel("registry"), Rel("container")>>

\* Task::start: CONTAINERS.write(), then Container::start takes the container
\* mutex and holds it over InitProcess::start, which takes no lock.
start_locks ==
    <<Acq("registry"), Acq("container"), Rel("container"), Rel("registry")>>

\* Container::process_mut, called by Task::wait: locks like Container::process.
process_mut_locks == <<Acq("container"), Rel("container")>>

\* The acquisitions and releases of each Task method, in program order.
\*   create: Container::new takes no lock; CONTAINERS.write(); container.pid()
\*   state:  container.process(), then p.exit_status()
\*   wait:   process_mut, p.wait() (no lock), p.exited_at(), p.exit_status()
\*   kill:   Container::kill takes no lock
\*   delete: Container::delete calls self.process(id)
lock_prog(op) ==
    CASE op = "create" ->
            <<Acq("registry"), Acq("container"), Rel("container"),
              Rel("registry")>>
      [] op = "start" -> start_locks
      [] op = "state" ->
            <<Acq("registry"), Acq("container"), Rel("container"),
              Acq("process"), Rel("process"), Rel("registry")>>
      [] op = "wait" ->
            <<Acq("registry")>> \o process_mut_locks \o
            <<Acq("process"), Rel("process"), Acq("process"), Rel("process"),
              Rel("registry")>>
      [] op = "kill" -> <<Acq("registry"), Rel("registry")>>
      [] op = "delete" ->
            <<Acq("registry"), Acq("container"), Rel("container"),
              Rel("registry")>>

LkCur(t) == lock_prog(lkOp[t])[lkPc[t]]

Held(t) == {l \in Locks : lkHolder[l] = t}

\* The thread is suspended in lock() / write() on a lock another thread holds.
LkWaits(t, l) ==
    /\ lkOp[t] # "idle"
    /\ LkCur(t) = Acq(l)
    /\ lkHolder[l] \notin {0, t}

LkAdvance(t) ==
    IF lkPc[t] = Len(lock_prog(lkOp[t]))
    THEN /\ lkOp' = [lkOp EXCEPT ![t] = "idle"]
         /\ lkPc' = [lkPc EXCEPT ![t] = 0]
    ELSE /\ lkPc' = [lkPc EXCEPT ![t] = lkPc[t] + 1]
         /\ UNCHANGED lkOp

\* A ttrpc worker thread starts to serve a request.
LkCall(t) ==
    /\ lkOp[t] = "idle"
    /\ \E op \in TaskOps : lkOp' = [lkOp EXCEPT ![t] = op]
    /\ lkPc' = [lkPc EXCEPT ![t] = 1]
    /\ UNCHANGED lkHolder

\* lock() / write(): granted when the lock is free.  std's Mutex and RwLock are
\* not reentrant: a thread that asks for a lock it holds is never granted it.
LkAcquire(t) ==
    /\ lkOp[t] # "idle"
    /\ LkCur(t).a = "acq"
    /\ lkHolder[LkCur(t).l] = 0
    /\ lkHolder' = [lkHolder EXCEPT ![LkCur(t).l] = t]
    /\ LkAdvance(t)

\* The guard goes out of scope.
LkRelease(t) ==
    /\ lkOp[t] # "idle"
    /\ LkCur(t).a = "rel"
    /\ lkHolder' = [lkHolder EXCEPT ![LkCur(t).l] = 0]
    /\ LkAdvance(t)

\* An early return with `?` (container or process not found, a failed runtime
\* command) of a thread that is not suspended in lock(): every guard it holds
\* is dropped.
LkFail(t) ==
    /\ lkOp[t] # "idle"
    /\ Held(t) # {}
    /\ ~(\E l \in Locks : LkWaits(t, l))
    /\ lkHolder' = [l \in Locks |-> IF lkHolder[l] = t THEN 0 ELSE lkHolder[l]]
    /\ lkOp' = [lkOp EXCEPT ![t] = "idle"]
    /\ lkPc' = [lkPc EXCEPT ![t] = 0]

\* The thread can take a step: it is not suspended on a lock.
LkEnabled(t) ==
    \/ lkOp[t] = "idle"
    \/ LkCur(t).a = "rel"
    \/ lkHolder[LkCur(t).l] = 0

LkInit ==
    /\ lkHolder = [l \in Locks |-> 0]
    /\ lkOp = [t \in Threads |-> "idle"]
    /\ lkPc = [t \in Threads |-> 0]

\* =============================================================== copy_pipes
\* The free function copy_pipes(io, stdio) that ProcessIO::copy_pipes calls
\* when copy is true, step by step, with the copy tasks it spawns, the
\* supervised process at the other end of the pipes and the peer that opens
\* the other end of the FIFOs.
VARIABLES
    cpStdio,     \* the StdioConfig
    cpPc,        \* where copy_pipes is: "out", "err", "stdin", "join", "returned"
    cpRes,       \* what copy_pipes returned
    cpTasks,     \* the JoinHandles pushed on `tasks` and not yet awaited
    cpTask,      \* per stream: the state of its copy task
    cpWriters,   \* the destination writers opened so far, in order
    cpWritten,   \* per output stream: bytes the process wrote to its pipe
    cpCopied,    \* per output stream: bytes the task copied to the destination
    cpDest,      \* per destination path: bytes that arrived there
    cpEof,       \* per stream: the source of the stream was closed
    cpPeer       \* FIFO paths whose other end the peer has opened

cpVars ==
    <<cpStdio, cpPc, cpRes, cpTasks, cpTask, cpWriters, cpWritten, cpCopied,
      cpDest, cpEof, cpPeer>>

MaxWrites == 1

Streams == {"out", "err", "in"}
OutStreams == {"out", "err"}
DestPaths == {"/s/out", "/s/err", "/f/log"}

cp_path(s) ==
    CASE s = "out" -> cpStdio.stdout
      [] s = "err" -> cpStdio.stderr
      [] s = "in" -> cpStdio.stdin

\* let mut same_file = None; the get_or_insert that would fill it is commented
\* out, so the `else if let Some(w) = same_file.take()` branch is never taken.
same_file == None

\* The third argument of dest: true for a FIFO destination, and
\* stdio.stdout == stdio.stderr for a file.
drop_w(s) == IF is_fifo(cp_path(s)) THEN TRUE ELSE cpStdio.stdout = cpStdio.stderr

NoTask == [st |-> "none", drop_w |-> FALSE]

\* One iteration of the loop over (stdout, stderr): fifo::is_fifo(&path)?, then
\* tokio::task::spawn of the task that opens the destination and copies.
CpSpawn ==
    /\ cpPc \in OutStreams
    /\ \E metaOk \in BOOLEAN :
        IF ~metaOk
        THEN /\ cpPc' = "returned"
             /\ cpRes' = "Err"
             /\ UNCHANGED <<cpTasks, cpTask>>
        ELSE /\ cpTask' = [cpTask EXCEPT ![cpPc] =
                              [st |-> IF ~is_fifo(cp_path(cpPc)) /\ same_file # None
                                      THEN "copying" ELSE "spawned",
                               drop_w |-> drop_w(cpPc)]]
             /\ cpTasks' = Append(cpTasks, cpPc)
             /\ cpPc' = IF cpPc = "out" THEN "err" ELSE "stdin"
             /\ UNCHANGED cpRes
    /\ UNCHANGED <<cpStdio, cpWriters, cpWritten, cpCopied, cpDest, cpEof, cpPeer>>

\* if stdio.stdin != "": Fifo::open(stdin, O_RDONLY | O_NONBLOCK).await?, which
\* is suspended until the peer opens the write end, then the stdin task is
\* spawned.
CpStdin ==
    /\ cpPc = "stdin"
    /\ IF cpStdio.stdin = ""
       THEN /\ cpPc' = "join"
            /\ UNCHANGED <<cpRes, cpTasks, cpTask>>
       ELSE /\ cpStdio.stdin \in cpPeer
            /\ \E openOk \in BOOLEAN :
                IF openOk
                THEN /\ cpTask' = [cpTask EXCEPT !["in"] =
                                      [st |-> "copying", drop_w |-> TRUE]]
                     /\ cpTasks' = Append(cpTasks, "in")
                     /\ cpPc' = "join"
                     /\ UNCHANGED cpRes
                ELSE /\ cpPc' = "returned"
                     /\ cpRes' = "Err"
                     /\ UNCHANGED <<cpTasks, cpTask>>
    /\ UNCHANGED <<cpStdio, cpWriters, cpWritten, cpCopied, cpDest, cpEof, cpPeer>>

\* for t in tasks { t.await??; } Ok(()): the next JoinHandle is awaited until
\* its task is over; the error of a task is returned.
CpJoin ==
    /\ cpPc = "join"
    /\ cpTasks # <<>>
    /\ cpTask[Head(cpTasks)].st \in {"done", "failed"}
    /\ IF cpTask[Head(cpTasks)].st = "failed"
       THEN cpPc' = "returned" /\ cpRes' = "Err"
       ELSE IF Tail(cpTasks) = <<>>
       THEN cpPc' = "returned" /\ cpRes' = "Ok"
       ELSE UNCHANGED <<cpPc, cpRes>>
    /\ cpTasks' = Tail(cpTasks)
    /\ UNCHANGED <<cpStdio, cpTask, cpWriters, cpWritten, cpCopied, cpDest, cpEof,
                   cpPeer>>

\* The task of an output stream opens its destination: a FIFO first at its
\* write end (suspended until the peer has the read end open) and then at its
\* read end; a file for append.  Each task opens its own writer.
CpTaskOpen(s) ==
    /\ s \in OutStreams
    /\ cpTask[s].st = "spawned"
    /\ is_fifo(cp_path(s)) => cp_path(s) \in cpPeer
    /\ \E openOk \in BOOLEAN :
        IF openOk
        THEN /\ cpTask' = [cpTask EXCEPT ![s].st = "copying"]
             /\ cpWriters' = Append(cpWriters,
                                [path |-> cp_path(s), by |-> s, closed |-> FALSE])
        ELSE /\ cpTask' = [cpTask EXCEPT ![s].st = "failed"]
             /\ UNCHANGED cpWriters
    /\ UNCHANGED <<cpStdio, cpPc, cpRes, cpTasks, cpWritten, cpCopied, cpDest,
                   cpEof, cpPeer>>

\* tokio::io::copy moves a byte from the pipe of the process to the writer.
CpTaskCopy(s) ==
    /\ s \in OutStreams
    /\ cpTask[s].st = "copying"
    /\ cpCopied[s] < cpWritten[s]
    /\ cpCopied' = [cpCopied EXCEPT ![s] = cpCopied[s] + 1]
    /\ cpDest' = [cpDest EXCEPT ![cp_path(s)] = cpDest[cp_path(s)] + 1]
    /\ UNCHANGED <<cpStdio, cpPc, cpRes, cpTasks, cpTask, cpWriters, cpWritten,
                   cpEof, cpPeer>>

\* tokio::io::copy returns at end-of-file; drop(r); the writer is dropped
\* (closed) when drop_w, forgotten otherwise.
CpTaskEnd(s) ==
    /\ cpTask[s].st = "copying"
    /\ cpEof[s]
    /\ s \in OutStreams => cpCopied[s] = cpWritten[s]
    /\ cpTask' = [cpTask EXCEPT ![s].st = "done"]
    /\ cpWriters' = [k \in DOMAIN cpWriters |->
                        IF cpWriters[k].by = s /\ cpTask[s].drop_w
                        THEN [cpWriters[k] EXCEPT !.closed = TRUE]
                        ELSE cpWriters[k]]
    /\ UNCHANGED <<cpStdio, cpPc, cpRes, cpTasks, cpWritten, cpCopied, cpDest,
                   cpEof, cpPeer>>

\* The supervised process writes a byte to its stdout or stderr.
CpWrite(s) ==
    /\ s \in OutStreams
    /\ ~cpEof[s]
    /\ cpWritten[s] < MaxWrites
    /\ cpWritten' = [cpWritten EXCEPT ![s] = cpWritten[s] + 1]
    /\ UNCHANGED <<cpStdio, cpPc, cpRes, cpTasks, cpTask, cpWriters, cpCopied,
                   cpDest, cpEof, cpPeer>>

\* The source of a stream is closed: the process exits (stdout, stderr), the
\* peer closes the stdin FIFO.
CpClose(s) ==
    /\ ~cpEof[s]
    /\ cpEof' = [cpEof EXCEPT ![s] = TRUE]
    /\ UNCHANGED <<cpStdio, cpPc, cpRes, cpTasks, cpTask, cpWriters, cpWritten,
                   cpCopied, cpDest, cpPeer>>

\* The peer opens its end of one of the FIFOs.
CpPeerOpen(p) ==
    /\ is_fifo(p)
    /\ p \notin cpPeer
    /\ cpPeer' = cpPeer \cup {p}
    /\ UNCHANGED <<cpStdio, cpPc, cpRes, cpTasks, cpTask, cpWriters, cpWritten,
                   cpCopied, cpDest, cpEof>>

\* copy_pipes is suspended on the JoinHandle of a task that is not over.
CpWaitsForTask ==
    /\ cpPc = "join"
    /\ cpTasks # <<>>
    /\ cpTask[Head(cpTasks)].st \notin {"done", "failed"}

\* The writers opened on one destination path.
WritersOf(p) == {k \in DOMAIN cpWriters : cpWriters[k].path = p}

CpInit ==
    /\ cpStdio = StdioConfig("", "/s/out", "/s/err")
    /\ cpPc = "out"
    /\ cpRes = "none"
    /\ cpTasks = <<>>
    /\ cpTask = [s \in Streams |-> NoTask]
    /\ cpWriters = <<>>
    /\ cpWritten = [s \in OutStreams |-> 0]
    /\ cpCopied = [s \in OutStreams |-> 0]
    /\ cpDest = [p \in DestPaths |-> 0]
    /\ cpEof = [s \in Streams |-> FALSE]
    /\ cpPeer = {}

\* ================================================================ Container
\* One Container, its init process in the dedicated field process_self and
\* its exec'd processes in the map `processes`, with the two methods that
\* look a process up and remove one.
VARIABLES cont, ctLast, ctRemoved

contVars == <<cont, ctLast, ctRemoved>>

ProcessKeys == {"", "e", "f"}

Proc(p) == [state |-> "Created", pid |-> p, wait_block |-> TRUE]

\* Container::process_remove: let _ = self.processes.remove(id)
process_remove(c, id) ==
    [c EXCEPT !.processes =
        [k \in DOMAIN c.processes \ {id} |-> c.processes[k]]]

ContProcess ==
    \E id \in ProcessKeys :
        /\ ctLast' = [op |-> "process", id |-> id, res |-> process(cont, id)]
        /\ UNCHANGED <<cont, ctRemoved>>

ContRemove ==
    \E id \in ProcessKeys :
        /\ cont' = process_remove(cont, id)
        /\ ctRemoved' = ctRemoved \cup {id}
        /\ ctLast' = [op |-> "process_remove", id |-> id, res |-> None]

ContInit ==
    /\ cont = Container(1)
    /\ ctLast = [op |-> "new", id |-> "", res |-> None]
    /\ ctRemoved = {}

\* ------------------------------------------------- RuncPipedIO and create
\* The pipes of a RuncPipedIO, the stdio of the command that create builds,
\* and the descriptors that stay open in the calling process afterwards.
VARIABLES
    pioIo,      \* the RuncPipedIO: per stream None or Some([rd, wr]), the ends the Pipe still holds
    pioCmd,     \* the command's stdin/stdout/stderr: None or Some(duplicate of a pipe end)
    pioCmdLive, \* "none" (not built), "forgotten" (std::mem::forget), "dropped"
    pioChild,   \* pipe ends open in the container process
    pioPc,      \* "new", "returned"
    pioRes,     \* result of create
    pioClient   \* "none", "sync" (RuncClient), "async" (RuncAsyncClient)

pioVars == <<pioIo, pioCmd, pioCmdLive, pioChild, pioPc, pioRes, pioClient>>

PioStreams == {"stdin", "stdout", "stderr"}

\* Pipe::new: both ends held
Pipe == [rd |-> TRUE, wr |-> TRUE]

\* RuncPipedIO::new: one pipe per stream the IOOption opens
RuncPipedIO_new(opts) == [s \in PioStreams |-> IF opts[s] THEN Some(Pipe) ELSE None]

\* File::try_clone of one end of one pipe
Dup(s, e) == [pipe |-> s, end |-> e]

\* a Command before any stdio is configured
Command_new == [stdin |-> None, stdout |-> None, stderr |-> None]

HoldsEnd(pio, s, e) == pio[s] # None /\ pio[s][1][e]

\* RuncPipedIO::set on a std::process::Command
set(pio, c) ==
    LET c1 == IF HoldsEnd(pio, "stdin", "rd")
              THEN [c EXCEPT !.stdin = Some(Dup("stdin", "rd"))] ELSE c
        c2 == IF HoldsEnd(pio, "stdout", "wr")
              THEN [c1 EXCEPT !.stdout = Some(Dup("stdout", "wr"))] ELSE c1
    IN  IF HoldsEnd(pio, "stderr", "wr")
        THEN [c2 EXCEPT !.stderr = Some(Dup("stderr", "wr"))] ELSE c2

\* RuncPipedIO::set_tk on a tokio::process::Command: the three branches all
\* call cmd.stdin(f), each call replacing (and closing) the previous file
set_tk(pio, c) ==
    LET c1 == IF HoldsEnd(pio, "stdin", "rd")
              THEN [c EXCEPT !.stdin = Some(Dup("stdin", "rd"))] ELSE c
        c2 == IF HoldsEnd(pio, "stdout", "wr")
              THEN [c1 EXCEPT !.stdin = Some(Dup("stdout", "wr"))] ELSE c1
    IN  IF HoldsEnd(pio, "stderr", "wr")
        THEN [c2 EXCEPT !.stdin = Some(Dup("stderr", "wr"))] ELSE c2

\* Pipe::close_write
close_write(p) == IF p = None THEN None ELSE Some([p[1] EXCEPT !.wr = FALSE])

\* RuncPipedIO::close_after_start
close_after_start(pio) ==
    [pio EXCEPT !["stdout"] = close_write(pio["stdout"]),
                !["stderr"] = close_write(pio["stderr"])]

\* the pipe ends a spawned child has on its fds 0, 1, 2
ChildEnds(c) ==
    {c[k][1] : k \in {k \in {"stdin", "stdout", "stderr"} : c[k] # None}}

LaunchResults == {"Ok", "SpawnFailed", "CommandFailed"}

\* RuncClient::create with CreateOpts.io = Some(io): set, launch(cmd, true,
\* true), close_after_start
PioCreate ==
    /\ pioPc = "new"
    /\ \E r \in LaunchResults :
        LET c == set(pioIo, Command_new) IN
        /\ pioCmd' = c
        /\ pioRes' = r
        /\ pioCmdLive' = IF r = "SpawnFailed" THEN "dropped" ELSE "forgotten"
        /\ pioChild' = IF r = "SpawnFailed" THEN {} ELSE ChildEnds(c)
        /\ pioIo' = IF r = "Ok" THEN close_after_start(pioIo) ELSE pioIo
    /\ pioPc' = "returned"
    /\ pioClient' = "sync"

\* RuncAsyncClient::create with CreateOpts.io = Some(io): set_tk,
\* MONITOR.start, close_after_start, forget(cmd), then the status check
PioCreateAsync ==
    /\ pioPc = "new"
    /\ \E r \in LaunchResults :
        LET c == set_tk(pioIo, Command_new) IN
        /\ pioCmd' = c
        /\ pioRes' = r
        /\ pioCmdLive' = IF r = "SpawnFailed" THEN "dropped" ELSE "forgotten"
        /\ pioChild' = IF r = "SpawnFailed" THEN {} ELSE ChildEnds(c)
        /\ pioIo' = IF r = "SpawnFailed" THEN pioIo ELSE close_after_start(pioIo)
    /\ pioPc' = "returned"
    /\ pioClient' = "async"

\* RuncIO::stdin() / stdout() / stderr(): the caller takes the shim's end
\* of one pipe (write end of stdin, read end of stdout and stderr)
PioTake ==
    /\ \E s \in PioStreams :
        LET e == IF s = "stdin" THEN "wr" ELSE "rd" IN
        /\ HoldsEnd(pioIo, s, e)
        /\ pioIo' = [pioIo EXCEPT ![s] = Some([pioIo[s][1] EXCEPT ![e] = FALSE])]
    /\ UNCHANGED <<pioCmd, pioCmdLive, pioChild, pioPc, pioRes, pioClient>>

\* the container process closes its stdio (or exits)
PioChildClose ==
    /\ pioChild # {}
    /\ pioChild' = {}
    /\ UNCHANGED <<pioIo, pioCmd, pioCmdLive, pioPc, pioRes, pioClient>>

\* the calling process has the write end of stream s open: the pipe's own
\* write end, or a duplicate owned by a command that was not dropped
ShimHoldsWrite(s) ==
    \/ HoldsEnd(pioIo, s, "wr")
    \/ /\ pioCmdLive = "forgotten"
       /\ Dup(s, "wr") \in ChildEnds(pioCmd)

\* a read on the read end of stream s returns end-of-file: no write end open
Eof(s) == ~ShimHoldsWrite(s) /\ Dup(s, "wr") \notin pioChild

PioInit ==
    /\ pioIo = RuncPipedIO_new([s \in PioStreams |-> TRUE])
    /\ pioCmd = Command_new
    /\ pioCmdLive = "none"
    /\ pioChild = {}
    /\ pioPc = "new"
    /\ pioRes = "none"
    /\ pioClient = "none"

\* ------------------------------------------------------------- debug_log!
\* Tasks of the shim that log through debug_log!, all on the one
\* LOG_STATIC_DBG mutex.
VARIABLES
    dbgHolder,  \* 0, or the logger holding the guard of LOG_STATIC_DBG
    dbgPc,      \* per logger: "idle", "locked", "written", "panicked"
    dbgLines    \* lines written to the log file

dbgVars == <<dbgHolder, dbgPc, dbgLines>>

Loggers == {1, 2, 3}
MaxLines == 5

\* Mutex::try_lock: the guard when the mutex is free, Err(WouldBlock) when
\* another thread holds it
try_lock(holder) == IF holder = 0 THEN "Ok" ELSE "WouldBlock"

\* let mut l = LOG_STATIC_DBG.try_lock().unwrap();
DbgTryLock ==
    /\ dbgLines < MaxLines
    /\ \E t \in Loggers :
        /\ dbgPc[t] = "idle"
        /\ IF try_lock(dbgHolder) = "Ok"
           THEN /\ dbgHolder' = t
                /\ dbgPc' = [dbgPc EXCEPT ![t] = "locked"]
           ELSE /\ dbgHolder' = dbgHolder
                /\ dbgPc' = [dbgPc EXCEPT ![t] = "panicked"]
    /\ UNCHANGED dbgLines

\* writeln!(*l, ..).unwrap();
DbgWrite ==
    /\ \E t \in Loggers :
        /\ dbgPc[t] = "locked"
        /\ dbgPc' = [dbgPc EXCEPT ![t] = "written"]
    /\ dbgLines' = dbgLines + 1
    /\ UNCHANGED dbgHolder

\* l.flush().unwrap(); the guard is dropped at the end of the block
DbgFlush ==
    /\ \E t \in Loggers :
        /\ dbgPc[t] = "written"
        /\ dbgPc' = [dbgPc EXCEPT ![t] = "idle"]
    /\ dbgHolder' = 0
    /\ UNCHANGED dbgLines

DbgInit ==
    /\ dbgHolder = 0
    /\ dbgPc = [t \in Loggers |-> "idle"]
    /\ dbgLines = 0

\* ------------------------------------------------ Fifo handle descriptor
\* The O_PATH descriptor that a Fifo's Handler keeps, in the descriptor
\* table of the process.
VARIABLES
    hdTable,    \* descriptor number -> 0 (free), the Fifo whose handle it is, or OtherFile
    hdFd,       \* per Fifo: Handler.fd, 0 before Handler::new
    hdAlive,    \* per Fifo: the Fifo exists (opened, not dropped)
    hdCloses,   \* per Fifo: close(2) calls made on Handler.fd through the Fifo
    hdStolen    \* a close made through a Fifo closed a descriptor that was not its handle

hdVars == <<hdTable, hdFd, hdAlive, hdCloses, hdStolen>>

Fifos == {1, 2}
Fds == {3, 4, 5}
OtherFile == 9
MaxCloses == 3

table_free(table, n) == table[n] = 0

\* open(2) returns the lowest free descriptor number
lowest_free(table) ==
    CHOOSE n \in Fds : table[n] = 0 /\ \A m \in Fds : table[m] = 0 => n <= m

\* unistd::close(fd) on the table
unistd_close(table, n) == [table EXCEPT ![n] = 0]

\* Handler::new: fcntl::open(path, O_PATH), File::from_raw_fd(fd)
HdNew ==
    \E f \in Fifos :
        /\ hdFd[f] = 0
        /\ \E n \in Fds : table_free(hdTable, n)
        /\ LET n == lowest_free(hdTable) IN
            /\ hdTable' = [hdTable EXCEPT ![n] = f]
            /\ hdFd' = [hdFd EXCEPT ![f] = n]
        /\ hdAlive' = [hdAlive EXCEPT ![f] = TRUE]
        /\ UNCHANGED <<hdCloses, hdStolen>>

\* Fifo::close -> Handler::close: unistd::close(self.file.as_raw_fd()); the
\* File keeps owning the descriptor number
HdClose ==
    \E f \in Fifos :
        /\ hdAlive[f]
        /\ hdCloses[f] < MaxCloses
        /\ hdTable' = unistd_close(hdTable, hdFd[f])
        /\ hdCloses' = [hdCloses EXCEPT ![f] = @ + 1]
        /\ hdStolen' = (hdStolen \/ hdTable[hdFd[f]] \notin {0, f})
        /\ UNCHANGED <<hdFd, hdAlive>>

\* drop of the Fifo: Handler.file (async_std::fs::File) closes its descriptor
HdDrop ==
    \E f \in Fifos :
        /\ hdAlive[f]
        /\ hdAlive' = [hdAlive EXCEPT ![f] = FALSE]
        /\ hdTable' = unistd_close(hdTable, hdFd[f])
        /\ hdCloses' = [hdCloses EXCEPT ![f] = @ + 1]
        /\ hdStolen' = (hdStolen \/ hdTable[hdFd[f]] \notin {0, f})
        /\ UNCHANGED hdFd

\* any other open in the process (the Fifo's data file, a log file, a pipe)
HdOpenOther ==
    /\ \E n \in Fds : table_free(hdTable, n)
    /\ hdTable' = [hdTable EXCEPT ![lowest_free(hdTable)] = OtherFile]
    /\ UNCHANGED <<hdFd, hdAlive, hdCloses, hdStolen>>

HdInit ==
    /\ hdTable = [n \in Fds |-> 0]
    /\ hdFd = [f \in Fifos |-> 0]
    /\ hdAlive = [f \in Fifos |-> FALSE]
    /\ hdCloses = [f \in Fifos |-> 0]
    /\ hdStolen = FALSE

\* ------------------------------------------ Task::wait and the registry
\* Requests of the Task service on one container id, each a thread that
\* takes the write lock of CONTAINERS; the oneshot channel behind
\* InitProcess.wait_block.
VARIABLES
    wtLock,     \* 0, or the thread holding CONTAINERS.write()
    wtPresent,  \* the id is a key of CONTAINERS
    wtBlock,    \* wait_block of the registered process: "None", "Some"
    wtChan,     \* its channel: "none", "sent", "open" (sender alive, no value), "closed"
    wtStopped,  \* its state is Stopped
    wtOp,       \* per thread: "idle", "create", "wait", "start"
    wtPc,       \* per thread: "idle", "new", "lock", "body", "recv", "unlock"
    wtRes       \* per thread: result of its last request

wtVars == <<wtLock, wtPresent, wtBlock, wtChan, wtStopped, wtOp, wtPc, wtRes>>

WtOps == {"create", "wait", "start"}

create_channel_kept == "open"

\* The channel as InitProcess::create leaves it: the value is sent before
\* create returns, whatever create_and_io_preparation did
create_channel == "sent"

\* a request arrives; Task::create builds the container before it locks
WtCall ==
    /\ \E t \in Threads, op \in WtOps :
        /\ wtPc[t] = "idle"
        /\ wtOp' = [wtOp EXCEPT ![t] = op]
        /\ wtPc' = [wtPc EXCEPT ![t] = IF op = "create" THEN "new" ELSE "lock"]
        /\ wtRes' = [wtRes EXCEPT ![t] = "none"]
    /\ UNCHANGED <<wtLock, wtPresent, wtBlock, wtChan, wtStopped>>

\* Task::create: Container::new (InitProcess::create inside) succeeds or fails
WtNew ==
    /\ \E t \in Threads, ok \in BOOLEAN :
        /\ wtPc[t] = "new"
        /\ wtPc' = [wtPc EXCEPT ![t] = IF ok THEN "lock" ELSE "idle"]
        /\ wtRes' = [wtRes EXCEPT ![t] = IF ok THEN "none" ELSE "Err"]
    /\ UNCHANGED <<wtLock, wtPresent, wtBlock, wtChan, wtStopped, wtOp>>

\* CONTAINERS.write().unwrap()
WtLock ==
    /\ wtLock = 0
    /\ \E t \in Threads :
        /\ wtPc[t] = "lock"
        /\ wtLock' = t
        /\ wtPc' = [wtPc EXCEPT ![t] = "body"]
    /\ UNCHANGED <<wtPresent, wtBlock, wtChan, wtStopped, wtOp, wtRes>>

\* Task::create under the lock: contains_key, insert
WtInsert ==
    /\ \E t \in Threads :
        /\ wtPc[t] = "body" /\ wtOp[t] = "create"
        /\ IF wtPresent
           THEN /\ wtRes' = [wtRes EXCEPT ![t] = "Err"]
                /\ UNCHANGED <<wtPresent, wtBlock, wtChan, wtStopped>>
           ELSE /\ wtRes' = [wtRes EXCEPT ![t] = "Ok"]
                /\ wtPresent' = TRUE
                /\ wtBlock' = "Some"
                /\ wtChan' = create_channel
                /\ wtStopped' = FALSE
        /\ wtPc' = [wtPc EXCEPT ![t] = "unlock"]
    /\ UNCHANGED <<wtLock, wtOp>>

\* Task::start under the lock (any request other than create and wait)
WtStart ==
    /\ \E t \in Threads :
        /\ wtPc[t] = "body" /\ wtOp[t] = "start"
        /\ wtRes' = [wtRes EXCEPT ![t] = IF wtPresent THEN "Ok" ELSE "NotFound"]
        /\ wtPc' = [wtPc EXCEPT ![t] = "unlock"]
    /\ UNCHANGED <<wtLock, wtPresent, wtBlock, wtChan, wtStopped, wtOp>>

\* Task::wait under the lock: get_mut(id), process_mut, then
\* InitProcess::wait up to self.wait_block.take()
WtTake ==
    /\ \E t \in Threads :
        /\ wtPc[t] = "body" /\ wtOp[t] = "wait"
        /\ IF wtPresent /\ wtBlock = "Some"
           THEN /\ wtBlock' = "None"
                /\ wtPc' = [wtPc EXCEPT ![t] = "recv"]
                /\ UNCHANGED wtRes
           ELSE /\ wtRes' = [wtRes EXCEPT ![t] = "NotFound"]
                /\ wtPc' = [wtPc EXCEPT ![t] = "unlock"]
                /\ UNCHANGED wtBlock
    /\ UNCHANGED <<wtLock, wtPresent, wtChan, wtStopped, wtOp>>

\* executor::block_on(rx.await): returns the sent value, fails when the
\* sender is gone, and otherwise stays pending; then state = Stopped
WtRecv ==
    /\ \E t \in Threads :
        /\ wtPc[t] = "recv"
        /\ wtChan \in {"sent", "closed"}
        /\ wtRes' = [wtRes EXCEPT ![t] = IF wtChan = "sent" THEN "Ok" ELSE "NotFound"]
        /\ wtStopped' = (wtStopped \/ wtChan = "sent")
        /\ wtPc' = [wtPc EXCEPT ![t] = "unlock"]
    /\ wtChan' = "none"
    /\ UNCHANGED <<wtLock, wtPresent, wtBlock, wtOp>>

\* the response is returned and the guard dropped
WtUnlock ==
    /\ \E t \in Threads :
        /\ wtPc[t] = "unlock"
        /\ wtPc' = [wtPc EXCEPT ![t] = "idle"]
    /\ wtLock' = 0
    /\ UNCHANGED <<wtPresent, wtBlock, wtChan, wtStopped, wtOp, wtRes>>

WtInit ==
    /\ wtLock = 0
    /\ wtPresent = FALSE
    /\ wtBlock = "None"
    /\ wtChan = "none"
    /\ wtStopped = FALSE
    /\ wtOp = [t \in Threads |-> "idle"]
    /\ wtPc = [t \in Threads |-> "idle"]
    /\ wtRes = [t \in Threads |-> "none"]

vars ==
    <<ipVars, envVars, ioVars, callVars, crVars, ffVars, monVars, taskVars,
      rcVars,
      muVars,
      lkVars,
      cpVars,
      contVars,
      pioVars,
      dbgVars,
      hdVars,
      wtVars>>

\* -------------------------------------------------------------------- spec
\* InitProcess::new; the bundle directory may hold the pid-file of an earlier run.
Init ==
    /\ state = "Unknown"
    /\ wait_block = None
    /\ runtime = Some("runc")
    /\ io = None
    /\ stdin = None
    /\ pid = 0
    /\ status = 0
    /\ exited = None
    /\ stdio \in {StdioConfig("", "", ""), StdioConfig("/s/in", "/s/out", "/s/err")}
    /\ ctr = "absent"
    /\ pidFile \in 0..MaxPid
    /\ procStatus = 0
    /\ exitObserved = FALSE
    /\ lastOp = "new"
    /\ lastRes = "Ok"
    /\ lastPrep = "none"
    /\ lastCopy = "none"
    /\ lastCmd = "none"
    /\ lastVal = "none"
    /\ copyTasks = 0
    /\ copyOpens = 0
    /\ CrInit
    /\ FfIdle
    /\ MonInit
    /\ TaskInit
    /\ RcInit
    /\ WtInit
    /\ HdInit
    /\ DbgInit
    /\ PioInit
    /\ ContInit
    /\ CpInit
    /\ LkInit
    /\ MuInit

Next ==
    \/ Create /\ UNCHANGED <<crVars, ffVars, monVars, taskVars, rcVars, muVars, lkVars, cpVars, contVars, pioVars, dbgVars, hdVars, wtVars>>
    \/ Start /\ UNCHANGED <<crVars, ffVars, monVars, taskVars, rcVars, muVars, lkVars, cpVars, contVars, pioVars, dbgVars, hdVars, wtVars>>
    \/ Delete /\ UNCHANGED <<crVars, ffVars, monVars, taskVars, rcVars, muVars, lkVars, cpVars, contVars, pioVars, dbgVars, hdVars, wtVars>>
    \/ Kill /\ UNCHANGED <<crVars, ffVars, monVars, taskVars, rcVars, muVars, lkVars, cpVars, contVars, pioVars, dbgVars, hdVars, wtVars>>
    \/ SetExited /\ UNCHANGED <<crVars, ffVars, monVars, taskVars, rcVars, muVars, lkVars, cpVars, contVars, pioVars, dbgVars, hdVars, wtVars>>
    \/ Wait /\ UNCHANGED <<crVars, ffVars, monVars, taskVars, rcVars, muVars, lkVars, cpVars, contVars, pioVars, dbgVars, hdVars, wtVars>>
    \/ ProcExit /\ UNCHANGED <<crVars, ffVars, monVars, taskVars, rcVars, muVars, lkVars, cpVars, contVars, pioVars, dbgVars, hdVars, wtVars>>
    \/ State /\ UNCHANGED <<crVars, ffVars, monVars, taskVars, rcVars, muVars, lkVars, cpVars, contVars, pioVars, dbgVars, hdVars, wtVars>>
    \/ Unimplemented /\ UNCHANGED <<crVars, ffVars, monVars, taskVars, rcVars, muVars, lkVars, cpVars, contVars, pioVars, dbgVars, hdVars, wtVars>>

Spec == Init /\ [][Next]_vars

\* create_and_io_preparation as InitProcess::create enters it on a fresh
\* process: the ProcessIO is in self.io and the created-signal receiver in
\* self.wait_block.
InitCreate ==
    /\ state = "Unknown"
    /\ wait_block = Some("empty")
    /\ runtime = Some("runc")
    /\ stdio \in {StdioConfig("", "", ""), StdioConfig("/s/in", "/s/out", "/s/err")}
    /\ io = Some(ProcessIO_new(stdio))
    /\ stdin = None
    /\ pid = 0
    /\ status = 0
    /\ exited = None
    /\ ctr = "absent"
    /\ pidFile = 0
    /\ procStatus = 0
    /\ exitObserved = FALSE
    /\ lastOp = "new"
    /\ lastRes = "Ok"
    /\ lastPrep = "none"
    /\ lastCopy = "none"
    /\ lastCmd = "none"
    /\ lastVal = "none"
    /\ copyTasks = 0
    /\ copyOpens = 0
    /\ CrInit
    /\ FfIdle
    /\ MonInit
    /\ TaskInit
    /\ RcInit
    /\ WtInit
    /\ HdInit
    /\ DbgInit
    /\ PioInit
    /\ ContInit
    /\ CpInit
    /\ LkInit
    /\ MuInit

frozenInCreate ==
    <<state, wait_block, pid, status, exited, stdio, envVars, callVars, ffVars,
      monVars, taskVars, rcVars,
      muVars,
      lkVars,
      cpVars,
      contVars,
      pioVars,
      dbgVars,
      hdVars,
      wtVars>>

BlockOnStep ==
    \/ RtBuild
    \/ TakeRuntime
    \/ SpawnOpenStdin
    \/ SpawnCopyIo
    \/ CreateSpawn
    \/ CreateNotify
    \/ AwaitCreate
    \/ AwaitStdin
    \/ AwaitCopy
    \/ DropRt

NextCreate ==
    \/ RtBuild /\ UNCHANGED frozenInCreate
    \/ TakeRuntime /\ UNCHANGED frozenInCreate
    \/ SpawnOpenStdin /\ UNCHANGED frozenInCreate
    \/ SpawnCopyIo /\ UNCHANGED frozenInCreate
    \/ CreateSpawn /\ UNCHANGED frozenInCreate
    \/ CreateNotify /\ UNCHANGED frozenInCreate
    \/ AwaitCreate /\ UNCHANGED frozenInCreate
    \/ AwaitStdin /\ UNCHANGED frozenInCreate
    \/ AwaitCopy /\ UNCHANGED frozenInCreate
    \/ DropRt /\ UNCHANGED frozenInCreate
    \/ OpenStdinRun /\ UNCHANGED frozenInCreate
    \/ FifoRendezvous /\ UNCHANGED frozenInCreate
    \/ CopyIoRun /\ UNCHANGED frozenInCreate
    \/ CmdOpenFifo /\ UNCHANGED frozenInCreate
    \/ CmdExit /\ UNCHANGED frozenInCreate
    \/ CmdKilled /\ UNCHANGED frozenInCreate

\* The runtime's worker threads and blocking pool keep running every task
\* that can run, the thread in block_on keeps polling its future, and the
\* external process, unless killed, goes on to open its FIFO end and to exit.
SpecCreate ==
    /\ InitCreate
    /\ [][NextCreate]_vars
    /\ WF_vars(BlockOnStep /\ UNCHANGED frozenInCreate)
    /\ WF_vars(OpenStdinRun /\ UNCHANGED frozenInCreate)
    /\ WF_vars(FifoRendezvous /\ UNCHANGED frozenInCreate)
    /\ WF_vars(CopyIoRun /\ UNCHANGED frozenInCreate)
    /\ WF_vars(CmdOpenFifo /\ UNCHANGED frozenInCreate)
    /\ WF_vars(CmdExit /\ UNCHANGED frozenInCreate)

\* Two tasks open the two ends of one FIFO path through Fifo::open, either
\* with or without O_CREAT, on a path that exists or not.
InitFifo ==
    /\ state = "Unknown"
    /\ wait_block = None
    /\ runtime = Some("runc")
    /\ stdio = StdioConfig("", "", "")
    /\ io = None
    /\ stdin = None
    /\ pid = 0
    /\ status = 0
    /\ exited = None
    /\ ctr = "absent"
    /\ pidFile = 0
    /\ procStatus = 0
    /\ exitObserved = FALSE
    /\ lastOp = "new"
    /\ lastRes = "Ok"
    /\ lastPrep = "none"
    /\ lastCopy = "none"
    /\ lastCmd = "none"
    /\ lastVal = "none"
    /\ copyTasks = 0
    /\ copyOpens = 0
    /\ CrInit
    /\ fsPath \in {0, 1}
    /\ inodes = fsPath
    /\ unlinks = 0
    /\ fifo \in [Openers -> {Opener(c, n) : c, n \in BOOLEAN}]
    /\ swapped = {}
    /\ pipe = <<>>
    /\ data \in BSeq(Bytes, MaxLen)
    /\ wpos = 0
    /\ rcvd = <<>>
    /\ eof = FALSE
    /\ MonInit
    /\ TaskInit
    /\ RcInit
    /\ WtInit
    /\ HdInit
    /\ DbgInit
    /\ PioInit
    /\ ContInit
    /\ CpInit
    /\ LkInit
    /\ MuInit

frozenInFifo ==
    <<ipVars, envVars, ioVars, callVars, crVars, monVars, taskVars, rcVars,
      muVars,
      lkVars,
      cpVars,
      contVars,
      pioVars,
      dbgVars,
      hdVars,
      wtVars>>

NextFifo ==
    \/ \E o \in Openers : Metadata(o) /\ UNCHANGED frozenInFifo
    \/ \E o \in Openers : Mkfifo(o) /\ UNCHANGED frozenInFifo
    \/ \E o \in Openers : HandlerNew(o) /\ UNCHANGED frozenInFifo
    \/ \E o \in Openers : HandlerPath(o) /\ UNCHANGED frozenInFifo
    \/ DataOpen /\ UNCHANGED frozenInFifo
    \/ Unlink /\ UNCHANGED frozenInFifo
    \/ Recreate /\ UNCHANGED frozenInFifo
    \/ Write /\ UNCHANGED frozenInFifo
    \/ WriterDrop /\ UNCHANGED frozenInFifo
    \/ Read /\ UNCHANGED frozenInFifo

SpecFifo == InitFifo /\ [][NextFifo]_vars

\* start and wait of one monitor on the two ends of a fresh oneshot channel
InitMon ==
    /\ state = "Unknown"
    /\ wait_block = None
    /\ runtime = Some("runc")
    /\ stdio = StdioConfig("", "", "")
    /\ io = None
    /\ stdin = None
    /\ pid = 0
    /\ status = 0
    /\ exited = None
    /\ ctr = "absent"
    /\ pidFile = 0
    /\ procStatus = 0
    /\ exitObserved = FALSE
    /\ lastOp = "new"
    /\ lastRes = "Ok"
    /\ lastPrep = "none"
    /\ lastCopy = "none"
    /\ lastCmd = "none"
    /\ lastVal = "none"
    /\ copyTasks = 0
    /\ copyOpens = 0
    /\ CrInit
    /\ FfIdle
    /\ monStart = "init"
    /\ monStartRes = "none"
    /\ monWait = "init"
    /\ monWaitRes = None
    /\ tx = "alive"
    /\ rx = "alive"
    /\ slot = None
    /\ chi = "none"
    /\ chiPid = 0
    /\ chiCode = 0
    /\ sends = 0
    /\ forget \in BOOLEAN
    /\ cmdMem = "owned"
    /\ TaskInit
    /\ RcInit
    /\ WtInit
    /\ HdInit
    /\ DbgInit
    /\ PioInit
    /\ ContInit
    /\ CpInit
    /\ LkInit
    /\ MuInit

frozenInMon ==
    <<ipVars, envVars, ioVars, callVars, crVars, ffVars, taskVars, rcVars,
      muVars,
      lkVars,
      cpVars,
      contVars,
      pioVars,
      dbgVars,
      hdVars,
      wtVars>>

NextMon ==
    \/ MonSpawn /\ UNCHANGED frozenInMon
    \/ ChiExit /\ UNCHANGED frozenInMon
    \/ ChiSignaled /\ UNCHANGED frozenInMon
    \/ MonOutput /\ UNCHANGED frozenInMon
    \/ MonSend /\ UNCHANGED frozenInMon
    \/ MonWaitPoll /\ UNCHANGED frozenInMon
    \/ MonWaitRecv /\ UNCHANGED frozenInMon
    \/ RxDrop /\ UNCHANGED frozenInMon

SpecMon == InitMon /\ [][NextMon]_vars

\* The Task service on an empty registry.
InitTask ==
    /\ state = "Unknown"
    /\ wait_block = None
    /\ runtime = Some("runc")
    /\ io = None
    /\ stdin = None
    /\ pid = 0
    /\ status = 0
    /\ exited = None
    /\ stdio = StdioConfig("", "", "")
    /\ ctr = "absent"
    /\ pidFile = 0
    /\ procStatus = 0
    /\ exitObserved = FALSE
    /\ lastOp = "new"
    /\ lastRes = "Ok"
    /\ lastPrep = "none"
    /\ lastCopy = "none"
    /\ lastCmd = "none"
    /\ lastVal = "none"
    /\ copyTasks = 0
    /\ copyOpens = 0
    /\ CrInit
    /\ FfIdle
    /\ MonInit
    /\ TaskInit
    /\ RcInit
    /\ WtInit
    /\ HdInit
    /\ DbgInit
    /\ PioInit
    /\ ContInit
    /\ CpInit
    /\ LkInit
    /\ MuInit

frozenInTask ==
    <<ipVars, envVars, ioVars, callVars, crVars, ffVars, monVars, rcVars,
      muVars,
      lkVars,
      cpVars,
      contVars,
      pioVars,
      dbgVars,
      hdVars,
      wtVars>>

NextTask ==
    \/ TaskCreate /\ UNCHANGED frozenInTask
    \/ TaskStart /\ UNCHANGED frozenInTask
    \/ TaskState /\ UNCHANGED frozenInTask
    \/ TaskWait /\ UNCHANGED frozenInTask
    \/ TaskKill /\ UNCHANGED frozenInTask
    \/ TaskDelete /\ UNCHANGED frozenInTask

SpecTask == InitTask /\ [][NextTask]_vars

\* One operation of the runtime client, from the call to its result.
InitRunc ==
    /\ state = "Unknown"
    /\ wait_block = None
    /\ runtime = Some("runc")
    /\ io = None
    /\ stdin = None
    /\ pid = 0
    /\ status = 0
    /\ exited = None
    /\ stdio = StdioConfig("", "", "")
    /\ ctr = "absent"
    /\ pidFile = 0
    /\ procStatus = 0
    /\ exitObserved = FALSE
    /\ lastOp = "new"
    /\ lastRes = "Ok"
    /\ lastPrep = "none"
    /\ lastCopy = "none"
    /\ lastCmd = "none"
    /\ lastVal = "none"
    /\ copyTasks = 0
    /\ copyOpens = 0
    /\ CrInit
    /\ FfIdle
    /\ MonInit
    /\ TaskInit
    /\ RcInit
    /\ WtInit
    /\ HdInit
    /\ DbgInit
    /\ PioInit
    /\ ContInit
    /\ CpInit
    /\ LkInit
    /\ MuInit

frozenInRunc ==
    <<ipVars, envVars, ioVars, callVars, crVars, ffVars, monVars, taskVars,
      muVars,
      lkVars,
      cpVars,
      contVars,
      pioVars,
      dbgVars,
      hdVars,
      wtVars>>

NextRunc ==
    \/ RcCall /\ UNCHANGED frozenInRunc
    \/ LaunchSpawn /\ UNCHANGED frozenInRunc
    \/ MonitorSpawn /\ UNCHANGED frozenInRunc
    \/ KidExit /\ UNCHANGED frozenInRunc
    \/ RcReturn /\ UNCHANGED frozenInRunc

SpecRunc == InitRunc /\ [][NextRunc]_vars

\* A created process (create returned Ok, the notification is on wait_block)
\* whose methods are then called from two threads.
InitMu ==
    /\ state = "Created"
    /\ wait_block = Some("sent")
    /\ runtime = Some("runc")
    /\ io = None
    /\ stdin = None
    /\ pid = 1
    /\ status = 0
    /\ exited = None
    /\ stdio = StdioConfig("", "", "")
    /\ ctr = "created"
    /\ pidFile = 1
    /\ procStatus = 0
    /\ exitObserved = FALSE
    /\ lastOp = "create"
    /\ lastRes = "Ok"
    /\ lastPrep = "Ok"
    /\ lastCopy = "none"
    /\ lastCmd = "none"
    /\ lastVal = "none"
    /\ copyTasks = 0
    /\ copyOpens = 0
    /\ CrInit
    /\ FfIdle
    /\ MonInit
    /\ TaskInit
    /\ RcInit
    /\ WtInit
    /\ HdInit
    /\ DbgInit
    /\ PioInit
    /\ ContInit
    /\ CpInit
    /\ LkInit
    /\ MuInit

frozenInMu ==
    <<runtime, io, stdin, stdio, envVars, ioVars, callVars, crVars, ffVars,
      monVars, taskVars, rcVars,
      lkVars,
      cpVars,
      contVars,
      pioVars,
      dbgVars,
      hdVars,
      wtVars>>

NextMu ==
    \/ \E t \in Threads : MuCall(t) /\ UNCHANGED frozenInMu
    \/ \E t \in Threads : MuLock(t) /\ UNCHANGED frozenInMu
    \/ \E t \in Threads : MuUnlock(t) /\ UNCHANGED frozenInMu
    \/ \E t \in Threads : MuCmd(t) /\ UNCHANGED frozenInMu
    \/ \E t \in Threads : MuWrite(t) /\ UNCHANGED frozenInMu
    \/ \E t \in Threads : MuRead(t) /\ UNCHANGED frozenInMu
    \/ \E t \in Threads : MuTake(t) /\ UNCHANGED frozenInMu

SpecMu == InitMu /\ [][NextMu]_vars

\* The Task service with two worker threads.
InitLock ==
    /\ state = "Unknown"
    /\ wait_block = None
    /\ runtime = Some("runc")
    /\ io = None
    /\ stdin = None
    /\ pid = 0
    /\ status = 0
    /\ exited = None
    /\ stdio = StdioConfig("", "", "")
    /\ ctr = "absent"
    /\ pidFile = 0
    /\ procStatus = 0
    /\ exitObserved = FALSE
    /\ lastOp = "new"
    /\ lastRes = "Ok"
    /\ lastPrep = "none"
    /\ lastCopy = "none"
    /\ lastCmd = "none"
    /\ lastVal = "none"
    /\ copyTasks = 0
    /\ copyOpens = 0
    /\ CrInit
    /\ FfIdle
    /\ MonInit
    /\ TaskInit
    /\ RcInit
    /\ WtInit
    /\ HdInit
    /\ DbgInit
    /\ PioInit
    /\ ContInit
    /\ CpInit
    /\ MuInit
    /\ LkInit

frozenInLock ==
    <<ipVars, envVars, ioVars, callVars, crVars, ffVars, monVars, taskVars,
      rcVars, muVars,
      cpVars,
      contVars,
      pioVars,
      dbgVars,
      hdVars,
      wtVars>>

NextLock ==
    \/ \E t \in Threads : LkCall(t) /\ UNCHANGED frozenInLock
    \/ \E t \in Threads : LkAcquire(t) /\ UNCHANGED frozenInLock
    \/ \E t \in Threads : LkRelease(t) /\ UNCHANGED frozenInLock
    \/ \E t \in Threads : LkFail(t) /\ UNCHANGED frozenInLock

SpecLock == InitLock /\ [][NextLock]_vars

\* copy_pipes called with copy == true on a config whose stdout is a FIFO or a
\* file, whose stderr is the same destination or another FIFO, with or
\* without stdin.
InitCopy ==
    /\ state = "Unknown"
    /\ wait_block = None
    /\ runtime = Some("runc")
    /\ io = None
    /\ stdin = None
    /\ pid = 0
    /\ status = 0
    /\ exited = None
    /\ stdio = StdioConfig("", "", "")
    /\ ctr = "absent"
    /\ pidFile = 0
    /\ procStatus = 0
    /\ exitObserved = FALSE
    /\ lastOp = "new"
    /\ lastRes = "Ok"
    /\ lastPrep = "none"
    /\ lastCopy = "none"
    /\ lastCmd = "none"
    /\ lastVal = "none"
    /\ copyTasks = 0
    /\ copyOpens = 0
    /\ CrInit
    /\ FfIdle
    /\ MonInit
    /\ TaskInit
    /\ RcInit
    /\ WtInit
    /\ HdInit
    /\ DbgInit
    /\ PioInit
    /\ ContInit
    /\ LkInit
    /\ MuInit
    /\ \E i \in {"", "/s/in"}, o \in {"/s/out", "/f/log"} :
        \E e \in {o, "/s/err"} : cpStdio = StdioConfig(i, o, e)
    /\ cpPc = "out"
    /\ cpRes = "none"
    /\ cpTasks = <<>>
    /\ cpTask = [s \in Streams |-> NoTask]
    /\ cpWriters = <<>>
    /\ cpWritten = [s \in OutStreams |-> 0]
    /\ cpCopied = [s \in OutStreams |-> 0]
    /\ cpDest = [p \in DestPaths |-> 0]
    /\ cpEof = [s \in Streams |-> FALSE]
    /\ cpPeer = {}

frozenInCopy ==
    <<ipVars, envVars, ioVars, callVars, crVars, ffVars, monVars, taskVars,
      rcVars, muVars, lkVars,
      contVars,
      pioVars,
      dbgVars,
      hdVars,
      wtVars>>

NextCopy ==
    \/ CpSpawn /\ UNCHANGED frozenInCopy
    \/ CpStdin /\ UNCHANGED frozenInCopy
    \/ CpJoin /\ UNCHANGED frozenInCopy
    \/ \E s \in OutStreams : CpTaskOpen(s) /\ UNCHANGED frozenInCopy
    \/ \E s \in OutStreams : CpTaskCopy(s) /\ UNCHANGED frozenInCopy
    \/ \E s \in Streams : CpTaskEnd(s) /\ UNCHANGED frozenInCopy
    \/ \E s \in OutStreams : CpWrite(s) /\ UNCHANGED frozenInCopy
    \/ \E s \in Streams : CpClose(s) /\ UNCHANGED frozenInCopy
    \/ \E p \in DestPaths \cup {"/s/in"} : CpPeerOpen(p) /\ UNCHANGED frozenInCopy

SpecCopy == InitCopy /\ [][NextCopy]_vars

\* A Container with any init process and any exec'd processes in its map.
InitCont ==
    /\ state = "Unknown"
    /\ wait_block = None
    /\ runtime = Some("runc")
    /\ io = None
    /\ stdin = None
    /\ pid = 0
    /\ status = 0
    /\ exited = None
    /\ stdio = StdioConfig("", "", "")
    /\ ctr = "absent"
    /\ pidFile = 0
    /\ procStatus = 0
    /\ exitObserved = FALSE
    /\ lastOp = "new"
    /\ lastRes = "Ok"
    /\ lastPrep = "none"
    /\ lastCopy = "none"
    /\ lastCmd = "none"
    /\ lastVal = "none"
    /\ copyTasks = 0
    /\ copyOpens = 0
    /\ CrInit
    /\ FfIdle
    /\ MonInit
    /\ TaskInit
    /\ RcInit
    /\ WtInit
    /\ HdInit
    /\ DbgInit
    /\ PioInit
    /\ CpInit
    /\ LkInit
    /\ MuInit
    /\ \E p \in Pids, K \in SUBSET ProcessKeys :
        \E m \in [K -> {Proc(q) : q \in Pids}] :
            cont = [process_self |-> Proc(p), processes |-> m]
    /\ ctLast = [op |-> "new", id |-> "", res |-> None]
    /\ ctRemoved = {}

frozenInCont ==
    <<ipVars, envVars, ioVars, callVars, crVars, ffVars, monVars, taskVars,
      rcVars, muVars, lkVars, cpVars,
      pioVars,
      dbgVars,
      hdVars,
      wtVars>>

NextCont ==
    \/ ContProcess /\ UNCHANGED frozenInCont
    \/ ContRemove /\ UNCHANGED frozenInCont

SpecCont == InitCont /\ [][NextCont]_vars

\* create with piped io, for every IOOption.
InitPio ==
    /\ state = "Unknown"
    /\ wait_block = None
    /\ runtime = Some("runc")
    /\ io = None
    /\ stdin = None
    /\ pid = 0
    /\ status = 0
    /\ exited = None
    /\ stdio = StdioConfig("", "", "")
    /\ ctr = "absent"
    /\ pidFile = 0
    /\ procStatus = 0
    /\ exitObserved = FALSE
    /\ lastOp = "new"
    /\ lastRes = "Ok"
    /\ lastPrep = "none"
    /\ lastCopy = "none"
    /\ lastCmd = "none"
    /\ lastVal = "none"
    /\ copyTasks = 0
    /\ copyOpens = 0
    /\ CrInit
    /\ FfIdle
    /\ MonInit
    /\ TaskInit
    /\ RcInit
    /\ WtInit
    /\ HdInit
    /\ DbgInit
    /\ CpInit
    /\ LkInit
    /\ MuInit
    /\ ContInit
    /\ \E opts \in [PioStreams -> BOOLEAN] : pioIo = RuncPipedIO_new(opts)
    /\ pioCmd = Command_new
    /\ pioCmdLive = "none"
    /\ pioChild = {}
    /\ pioPc = "new"
    /\ pioRes = "none"
    /\ pioClient = "none"

frozenInPio ==
    <<ipVars, envVars, ioVars, callVars, crVars, ffVars, monVars, taskVars,
      rcVars, muVars, lkVars, cpVars, contVars,
      dbgVars,
      hdVars,
      wtVars>>

NextPio ==
    \/ PioCreate /\ UNCHANGED frozenInPio
    \/ PioCreateAsync /\ UNCHANGED frozenInPio
    \/ PioTake /\ UNCHANGED frozenInPio
    \/ PioChildClose /\ UNCHANGED frozenInPio

SpecPio == InitPio /\ [][NextPio]_vars

\* Loggers calling debug_log! concurrently.
InitDbg ==
    /\ state = "Unknown"
    /\ wait_block = None
    /\ runtime = Some("runc")
    /\ io = None
    /\ stdin = None
    /\ pid = 0
    /\ status = 0
    /\ exited = None
    /\ stdio = StdioConfig("", "", "")
    /\ ctr = "absent"
    /\ pidFile = 0
    /\ procStatus = 0
    /\ exitObserved = FALSE
    /\ lastOp = "new"
    /\ lastRes = "Ok"
    /\ lastPrep = "none"
    /\ lastCopy = "none"
    /\ lastCmd = "none"
    /\ lastVal = "none"
    /\ copyTasks = 0
    /\ copyOpens = 0
    /\ CrInit
    /\ FfIdle
    /\ MonInit
    /\ TaskInit
    /\ RcInit
    /\ WtInit
    /\ HdInit
    /\ CpInit
    /\ LkInit
    /\ MuInit
    /\ ContInit
    /\ PioInit
    /\ dbgHolder = 0
    /\ dbgPc = [t \in Loggers |-> "idle"]
    /\ dbgLines = 0

frozenInDbg ==
    <<ipVars, envVars, ioVars, callVars, crVars, ffVars, monVars, taskVars,
      rcVars, muVars, lkVars, cpVars, contVars, pioVars,
      hdVars,
      wtVars>>

NextDbg ==
    \/ DbgTryLock /\ UNCHANGED frozenInDbg
    \/ DbgWrite /\ UNCHANGED frozenInDbg
    \/ DbgFlush /\ UNCHANGED frozenInDbg

SpecDbg == InitDbg /\ [][NextDbg]_vars

\* Fifos opened, closed and dropped in a process that opens other files.
InitHd ==
    /\ state = "Unknown"
    /\ wait_block = None
    /\ runtime = Some("runc")
    /\ io = None
    /\ stdin = None
    /\ pid = 0
    /\ status = 0
    /\ exited = None
    /\ stdio = StdioConfig("", "", "")
    /\ ctr = "absent"
    /\ pidFile = 0
    /\ procStatus = 0
    /\ exitObserved = FALSE
    /\ lastOp = "new"
    /\ lastRes = "Ok"
    /\ lastPrep = "none"
    /\ lastCopy = "none"
    /\ lastCmd = "none"
    /\ lastVal = "none"
    /\ copyTasks = 0
    /\ copyOpens = 0
    /\ CrInit
    /\ FfIdle
    /\ MonInit
    /\ TaskInit
    /\ RcInit
    /\ WtInit
    /\ CpInit
    /\ LkInit
    /\ MuInit
    /\ ContInit
    /\ PioInit
    /\ DbgInit
    /\ hdTable = [n \in Fds |-> 0]
    /\ hdFd = [f \in Fifos |-> 0]
    /\ hdAlive = [f \in Fifos |-> FALSE]
    /\ hdCloses = [f \in Fifos |-> 0]
    /\ hdStolen = FALSE

frozenInHd ==
    <<ipVars, envVars, ioVars, callVars, crVars, ffVars, monVars, taskVars,
      rcVars, muVars, lkVars, cpVars, contVars, pioVars,
      dbgVars,
      wtVars>>

NextHd ==
    \/ HdNew /\ UNCHANGED frozenInHd
    \/ HdClose /\ UNCHANGED frozenInHd
    \/ HdDrop /\ UNCHANGED frozenInHd
    \/ HdOpenOther /\ UNCHANGED frozenInHd

SpecHd == InitHd /\ [][NextHd]_vars

\* Two threads serving create, wait and start requests on one id.
InitWait ==
    /\ state = "Unknown"
    /\ wait_block = None
    /\ runtime = Some("runc")
    /\ io = None
    /\ stdin = None
    /\ pid = 0
    /\ status = 0
    /\ exited = None
    /\ stdio = StdioConfig("", "", "")
    /\ ctr = "absent"
    /\ pidFile = 0
    /\ procStatus = 0
    /\ exitObserved = FALSE
    /\ lastOp = "new"
    /\ lastRes = "Ok"
    /\ lastPrep = "none"
    /\ lastCopy = "none"
    /\ lastCmd = "none"
    /\ lastVal = "none"
    /\ copyTasks = 0
    /\ copyOpens = 0
    /\ CrInit
    /\ FfIdle
    /\ MonInit
    /\ TaskInit
    /\ RcInit
    /\ CpInit
    /\ LkInit
    /\ MuInit
    /\ ContInit
    /\ PioInit
    /\ DbgInit
    /\ HdInit
    /\ wtLock = 0
    /\ wtPresent = FALSE
    /\ wtBlock = "None"
    /\ wtChan = "none"
    /\ wtStopped = FALSE
    /\ wtOp = [t \in Threads |-> "idle"]
    /\ wtPc = [t \in Threads |-> "idle"]
    /\ wtRes = [t \in Threads |-> "none"]

frozenInWait ==
    <<ipVars, envVars, ioVars, callVars, crVars, ffVars, monVars, taskVars,
      rcVars, muVars, lkVars, cpVars, contVars, pioVars,
      dbgVars, hdVars>>

NextWait ==
    \/ WtCall /\ UNCHANGED frozenInWait
    \/ WtNew /\ UNCHANGED frozenInWait
    \/ WtLock /\ UNCHANGED frozenInWait
    \/ WtInsert /\ UNCHANGED frozenInWait
    \/ WtStart /\ UNCHANGED frozenInWait
    \/ WtTake /\ UNCHANGED frozenInWait
    \/ WtRecv /\ UNCHANGED frozenInWait
    \/ WtUnlock /\ UNCHANGED frozenInWait

SpecWait == InitWait /\ [][NextWait]_vars

\* ================================================================== claims
\* C1: the lifecycle state moves only along Unknown->Created->Running->
\* Stopped->Deleted (plus Running<->Paused); as the claim spells it out:
\* Running is never entered from a state other than Created or Paused, and
\* once the state is Deleted no operation changes it.
C1_LifecycleEdges ==
    [][/\ (state' = "Running" /\ state # "Running" => state \in {"Created", "Paused"})
       /\ (state = "Deleted" => state' = "Deleted")]_vars

\* C2: wait does not return successfully while the supervised process is only
\* created or running and no exit has been observed.
C2_WaitReturnsAfterExit ==
    (lastOp = "wait" /\ lastRes = "Ok")
        => ~(ctr \in {"created", "running"} /\ ~exitObserved)

\* C3: a wait() leaves no receiver behind, and a wait() that finds the receiver
\* already taken returns NotFound and changes nothing of the process.
C3_SecondWaitNotFound ==
    [][lastOp' = "wait" =>
          /\ wait_block' = None
          /\ (wait_block = None => lastRes' = "NotFound" /\ UNCHANGED ipVars)]_vars

\* a wait() answered NotFound after an earlier wait() (the only way to Stopped
\* with no exit observed) took the receiver
C3_Witness ==
    /\ lastOp = "wait"
    /\ lastRes = "NotFound"
    /\ state = "Stopped"
    /\ ~exitObserved
    /\ exited = None

\* C4: pid is 0 until a create() returns Ok, a create() that returns Ok leaves
\* a non-zero pid, and start, kill, set_exited, wait and delete never change it.
C4_PidStable ==
    [][/\ (lastOp' # "create" => pid' = pid)
       /\ (lastOp' = "create" /\ lastRes' = "Ok" => pid' # 0)
       /\ (lastOp' = "create" /\ lastRes' # "Ok" => pid' = pid)]_vars

\* the pid of a created process read after start, exit, set_exited and delete
C4_Witness ==
    /\ lastOp = "delete"
    /\ lastRes = "Ok"
    /\ state = "Deleted"
    /\ exitObserved
    /\ pid # 0

\* C5: when a sub-step of create fails (here: create_and_io_preparation
\* returned an error), create returns an error and leaves state and pid as
\* they were, so a pid-file of an earlier run is never read into pid.
C5_FailedCreateSetsNothing ==
    [][(lastOp' = "create" /\ lastPrep' = "Err")
          => (lastRes' = "Err" /\ state' = state /\ pid' = pid)]_vars

\* C7: a ProcessIO built from an all-empty StdioConfig has copy = FALSE, and
\* its copy_pipes returns Ok having opened nothing and spawned no copy task.
C7_NullIoNoCopy ==
    /\ (io # None /\ is_null(io[1].stdio) => ~io[1].copy)
    /\ (is_null(stdio) /\ lastCopy # "none"
            => lastCopy = "Ok" /\ copyTasks = 0 /\ copyOpens = 0)

\* create ran copy_pipes on the bundle of an all-empty config and kept the bundle
C7_Witness ==
    /\ is_null(stdio)
    /\ lastOp = "create"
    /\ lastCopy = "Ok"
    /\ io # None
    /\ ~io[1].copy
    /\ copyTasks = 0

C9_ReplacedPathFails ==
    /\ "w" \in swapped => fifo["w"].pc \in {"path", "data_open", "failed"}
    /\ \A o \in Openers : fifo[o].pc \in {"open", "closed"} => fifo[o].file = fifo[o].ino

\* C9 amended: the identity check never fails, the path being recreated or
\* not, and a handle returned by Fifo::open is connected to the file whose
\* identity Handler::new captured, never to the file the path names instead.
C9_CapturedFileOpened ==
    \A o \in Openers :
        /\ fifo[o].err # "EBADFD"
        /\ fifo[o].pc \in {"open", "closed"} => fifo[o].file = fifo[o].ino

\* the writer got its handle after the path was recreated under it
C9_Witness ==
    /\ "w" \in swapped
    /\ fifo["w"].pc = "open"
    /\ fifo["w"].file = fifo["w"].ino
    /\ fsPath # 0
    /\ fsPath # fifo["w"].ino

\* C10: with start and wait running side by side on one oneshot channel, for
\* a command that has ended, start, once it is over, has sent exactly one
\* Exit; wait, once it has returned, has returned that Exit, the pid and the
\* status of the command start ran; and no second Exit is ever sent.
C10_OneExitDelivered ==
    /\ sends <= 1
    /\ (chi \in {"exited", "signaled"} /\ monStart \in {"returned", "panicked"}
        /\ monStartRes # "WaitErr" /\ monWait # "dropped") => sends = 1
    /\ (chi \in {"exited", "signaled"} /\ monWait = "returned"
        /\ monStartRes # "WaitErr") => monWaitRes = Some(Exit(chiPid, chiCode))

\* C11: the monitor never panics and reports a lost channel end as an error:
\* when the receiver was dropped before the Exit was sent, start, having
\* collected the output of the command, returns ConnectionRefused; when the
\* sender is gone without having sent, wait returns BrokenPipe.
C11_LostEndIsError ==
    /\ monStart # "panicked"
    /\ (monWait = "dropped" /\ sends = 0 /\ monStart = "returned"
        /\ monStartRes \notin {"SpawnErr", "WaitErr"})
            => monStartRes = "ConnectionRefused"
    /\ (monWait = "returned" /\ sends = 0) => monWaitRes = Some("BrokenPipe")

\* C12: state() fails with NotFound exactly when the state is Unknown, returns
\* the current state in each of the six other states, and changes nothing.
C12_StateQuery ==
    [][lastOp' = "state"
        => /\ UNCHANGED ipVars
           /\ lastRes' = "NotFound" <=> state = "Unknown"
           /\ state # "Unknown" => lastRes' = "Ok" /\ lastVal' = state
           /\ \A s \in ProcessState \ {"Unknown"} :
                state_result(s) = [res |-> "Ok", val |-> s]]_vars

\* state() was called on a process that is still Unknown
C12_Witness ==
    /\ lastOp = "state"
    /\ lastRes = "NotFound"
    /\ state = "Unknown"
    /\ wait_block # None

\* C13: start() sets the state to Running exactly when the runtime client's
\* start command succeeded; when it did not, start returns an error and
\* state, pid, exit status and exit timestamp are what they were.
C13_StartSetsRunning ==
    [][lastOp' = "start"
        => /\ lastCmd' = "Ok" => state' = "Running" /\ lastRes' = "Ok"
           /\ lastCmd' = "Err" => lastRes' = "Err"
           /\ lastCmd' # "Ok" => UNCHANGED <<state, pid, status, exited>>]_vars

\* a start whose command failed left a Created process Created
C13_Witness ==
    /\ lastOp = "start"
    /\ lastCmd = "Err"
    /\ lastRes = "Err"
    /\ state = "Created"
    /\ pid # 0

\* C14: for a Running process, a successful kill followed by delete: when the
\* delete succeeds the state is Deleted and the exit status is the
\* signal-derived code of the killed process; when it fails the state is
\* not changed.
C14_KillThenDelete ==
    [][(lastOp = "kill" /\ lastRes = "Ok" /\ state = "Running" /\ lastOp' = "delete")
        => /\ lastRes' = "Ok" => state' = "Deleted" /\ status' = procStatus
           /\ lastRes' # "Ok" => state' = state]_vars

\* C20: no operation panics; pause, resume, update and exec return an
\* unimplemented error.
C20_NoPanic ==
    /\ lastRes # "Panic"
    /\ lastOp \in {"pause", "resume", "update", "exec"} => lastRes = "Unimplemented"

\* C15: a Start request for a registered container with an empty exec-id
\* runs the start of that container's init process and, when the start
\* succeeds, leaves the init process Running and returns its pid; a non-empty
\* exec-id that is no key of the exec'd processes is answered not-found.
C15_StartSelectsProcess ==
    [][(rpcOp' = "start" /\ rpcId' \in DOMAIN CONTAINERS) =>
         LET c == CONTAINERS[rpcId']
         IN  /\ rpcExec' = "" =>
                   /\ rpcCmd' # "none"
                   /\ rpcCmd' = "Ok" =>
                         /\ rpcRes' = "Ok"
                         /\ CONTAINERS'[rpcId'].process_self.state = "Running"
                         /\ rpcPid' = c.process_self.pid
             /\ (rpcExec' # "" /\ rpcExec' \notin DOMAIN c.processes) =>
                   rpcRes' = "NotFound"]_vars

\* C16: a Create request for an id already in the registry fails with the
\* already-exists error and leaves the registry, with the first container's
\* init process state and pid, as it was.
C16_DuplicateCreate ==
    [][(rpcOp' = "create" /\ rpcId' \in DOMAIN CONTAINERS) =>
         /\ rpcRes' = "AlreadyExists"
         /\ CONTAINERS' = CONTAINERS]_vars

C18_FailedNewUnmounts ==
    [][(rpcOp' = "create" /\ rpcRes' = "CreateFailed") =>
         /\ mounts'[rpcId'] <= mounts[rpcId']
         /\ DOMAIN CONTAINERS' = DOMAIN CONTAINERS]_vars

\* C19: an operation of the runtime client returns Ok exactly when its
\* command was spawned and what was spawned exited with status 0; a non-zero
\* exit is returned as CommandFailed with that status, and a failed spawn as
\* the spawn error.
C19_OkIffExitZero ==
    rcPhase = "done" =>
        /\ rcRes = "Ok" <=>
              (kids # <<>> /\ \A i \in 1..Len(kids) : kids[i] = Exited(0))
        /\ (~spawnFailed /\ rcRes \notin {"InvalidCommand", "Panic"}) =>
              \A i \in 1..Len(kids) :
                  (kids[i].st = "exited" /\ kids[i].code # 0) =>
                      (rcRes = "CommandFailed" /\ rcStatus = kids[i].code)
        /\ spawnFailed => rcRes = "ProcessSpawnFailed"

\* C21: the "created" notification is on the wait_block channel only when the
\* create command and the IO preparation of the last create all succeeded; a
\* create whose preparation failed has sent nothing, so that no wait() is
\* released by it.
C21_NotifyOnlyOnSuccess ==
    (lastOp = "create" /\ lastPrep = "Err") => wait_block # Some("sent")

\* C23: the ProcessIO that create builds from a non-empty stdio config whose
\* stdout is a FIFO path (a relative URL, read as fifo:<path>) is the piped
\* backend with copy = true.
C23_BackendFromConfig ==
    (io # None /\ ~is_null(io[1].stdio)) =>
        (io[1].io = "RuncPipedIO" /\ io[1].copy)

C28_ExitedOnlyWhenStopped ==
    exited # None => state \in {"Stopped", "Deleted"}

\* C27: set_exited assigns the state, the exit timestamp and the status as one
\* step under the process mutex: no state(), exit_status() or exited_at()
\* running in another thread reads a field while a set_exited has assigned
\* some of the three fields and not yet all of them.
C27_SetExitedAtomic ==
    [][(muLast'.kind = "read" /\
        muLast'.op \in {"state", "exit_status", "exited_at"}) => ~Torn]_vars

\* A set_exited has made the state Stopped and not yet stored the timestamp,
\* and a reader in the other thread is waiting for the mutex it holds.
C27_Witness ==
    /\ Torn
    /\ state = "Stopped"
    /\ exited = None
    /\ \E t \in Threads :
        /\ thOp[t] \in {"state", "exit_status", "exited_at"}
        /\ MuCur(t) = "lock"
        /\ muHolder \in Threads \ {t}

\* C29: every read and every write of the state, the pid, the exit status and
\* the exit timestamp is a step of the thread that holds the process mutex.
C29_AccessUnderMutex ==
    [][muLast'.kind \in {"read", "write"} => muHolder = muLast'.t]_vars

\* C30: locks are taken in the order registry lock, container mutex, process
\* mutex: a thread that asks for a lock holds only locks that come before it in
\* that order (so no thread waits for the registry lock while it holds a
\* container or process mutex), and the threads serving concurrent Create,
\* Start, State, Wait, Kill and Delete requests are never all suspended on
\* locks: whenever a request is being served some thread can take a step.
C30_LockOrder ==
    /\ \A t \in Threads :
          (lkOp[t] # "idle" /\ LkCur(t).a = "acq") =>
              \A h \in Held(t) : lock_rank(h) < lock_rank(LkCur(t).l)
    /\ (\E t \in Threads : lkOp[t] # "idle") =>
          \E t \in Threads : lkOp[t] # "idle" /\ LkEnabled(t)

\* One thread is inside Container::start with the registry lock and the
\* container mutex, the other is suspended on the registry lock.
C30_Witness ==
    /\ lkOp[1] = "start"
    /\ Held(1) = {"registry", "container"}
    /\ LkWaits(2, "registry")

\* C25: an opener that passed O_NONBLOCK to Fifo::open is never suspended in
\* the data-mode open while the other end of the FIFO has not been opened: it
\* gets its Fifo without waiting for the peer.
C25_NonblockReturns ==
    \A o \in Openers : fifo[o].nonblock => ~OpenSuspended(o)

\* C22: with copy == true, copy_pipes returns once its copy tasks are spawned
\* and does not wait for them to finish: it is never suspended on a copy task
\* that is still running.
C22_ReturnsOnceSpawned == ~CpWaitsForTask

\* C24: when stdout and stderr name the same destination, copy_pipes opens
\* exactly one writer on it, shared by the two copy tasks, exactly one task
\* closes it, and every byte the process wrote and a task copied is in the
\* destination once.
C24_OneSharedWriter ==
    cpStdio.stdout = cpStdio.stderr =>
        /\ Cardinality(WritersOf(cpStdio.stdout)) <= 1
        /\ cpDest[cpStdio.stdout] = cpCopied["out"] + cpCopied["err"]

\* C38: whenever the process is Stopped its exit timestamp is present and its
\* exit status is the one of the observed exit: neither wait() nor set_exited()
\* leaves it Stopped with exited_at absent or with another status.
C38_StoppedHasExit ==
    state = "Stopped" => (exited # None /\ exitObserved /\ status = procStatus)

\* C35: after create has returned, with success or with an error, the process
\* still holds its runtime client handle, and no start(), kill() or delete()
\* ends in the "runtime not found" panic.
C35_RuntimeKept ==
    /\ (lastOp = "create" /\ lastRes \in {"Ok", "Err"}) => runtime # None
    /\ ~(lastOp \in {"start", "kill", "delete"} /\ lastRes = "Panic")

\* C32: over any sequence of operations, create() called again included,
\* copy_pipes is invoked at most once on a ProcessIO bundle.
C32_CopyPipesOnce == io # None => io[1].calls <= 1

\* C36: one call of an operation of the async client spawns the external
\* runtime command at most once, and exactly once when the call has returned
\* a result of the command.
C36_OneSpawnPerCall ==
    rcClient = "async" =>
        /\ Len(kids) <= 1
        /\ (rcPhase = "done" /\ rcRes \in {"Ok", "CommandFailed"}) => Len(kids) = 1

\* C33: process("") returns the init process, process(id) for a non-empty id
\* returns the process stored under id in the map or nothing when there is
\* none, and no process_remove, process_remove("") included, changes the init
\* process.
C33_InitProcessNotInMap ==
    [][/\ cont'.process_self = cont.process_self
       /\ (ctLast'.op = "process" /\ ctLast'.id = "") =>
              ctLast'.res = Some(cont.process_self)
       /\ (ctLast'.op = "process" /\ ctLast'.id # "") =>
              ctLast'.res = IF ctLast'.id \in DOMAIN cont.processes
                            THEN Some(cont.processes[ctLast'.id])
                            ELSE None]_vars

\* process("") answered with the init process after process_remove("") was
\* called on a container whose map held other processes
C33_Witness ==
    /\ ctLast.op = "process"
    /\ ctLast.id = ""
    /\ ctLast.res = Some(cont.process_self)
    /\ "" \in ctRemoved
    /\ cont.processes # NoProcesses

\* C31: once create with piped io has run and returned Ok, the calling
\* process has no write end of the stdout or stderr pipe open, neither the
\* pipe's own nor a duplicate, so each read end is at end-of-file as soon as
\* the container has closed its ends.
C31_NoWriteEndKept ==
    (pioPc = "returned" /\ pioRes = "Ok") =>
        \A s \in {"stdout", "stderr"} :
            /\ ~ShimHoldsWrite(s)
            /\ (pioChild = {} => Eof(s))

\* C34: set_tk leaves the command with the stdio that set gives it: the
\* read end of the stdin pipe as stdin, the write end of the stdout pipe as
\* stdout and the write end of the stderr pipe as stderr.
C34_SetTkWiresLikeSet ==
    (pioPc = "returned" /\ pioClient = "async") =>
        /\ pioCmd.stdin = (IF pioIo["stdin"] # None
                           THEN Some(Dup("stdin", "rd")) ELSE None)
        /\ pioCmd.stdout = (IF pioIo["stdout"] # None
                            THEN Some(Dup("stdout", "wr")) ELSE None)
        /\ pioCmd.stderr = (IF pioIo["stderr"] # None
                            THEN Some(Dup("stderr", "wr")) ELSE None)

\* C39: no concurrent use of debug_log! panics: a logger that finds the lock
\* of the log file held waits for it or skips its line.
C39_NoPanicOnContention == \A t \in Loggers : dbgPc[t] # "panicked"

\* C40: the handle descriptor of a Fifo has one closer: whatever calls of
\* Fifo::close() are made before the Fifo is dropped, close(2) is issued on
\* the descriptor at most once, and never hits a descriptor that is not the
\* handle.
C40_HandleClosedOnce == \A f \in Fifos : hdCloses[f] <= 1 /\ ~hdStolen

\* C37: a wait request never sits on the registry write lock waiting for
\* something only another request could bring: whenever it holds the lock
\* and has reached the receive on the wait channel, the channel already
\* has its value or its sender is gone, so the receive returns at once.
C37_WaitNotBlockedUnderLock ==
    \A t \in Threads :
        (wtLock = t /\ wtOp[t] = "wait" /\ wtPc[t] = "recv") => wtChan # "open"

\* a wait on a registered container has completed with Ok, still holding
\* the lock, while the other thread's request is waiting for that lock
C37_Witness ==
    \E t \in Threads, u \in Threads :
        /\ t # u
        /\ wtLock = t /\ wtOp[t] = "wait" /\ wtPc[t] = "unlock" /\ wtRes[t] = "Ok"
        /\ wtPc[u] = "lock"
====
